---- MODULE Spec2Model ----
(***************************************************************************)
(* Remote replication of the skills central repository and of file         *)
(* mappings (src/tauri/src/coding/ssh and src/tauri/src/coding/wsl).       *)
(*                                                                         *)
(* The SSH and the WSL variant run the same algorithm over different       *)
(* transports; every remote operation is a spawned command whose failure   *)
(* is an outcome the environment chooses.  One model covers both: the      *)
(* line references are those of the SSH variant, the WSL lines are named   *)
(* in the comments.                                                        *)
(***************************************************************************)
EXTENDS Naturals, Integers, Sequences, FiniteSets, TLC

VARIABLES
    skills,      \* skill table: name -> Skill record (get_managed_skills)
    config,      \* SSHSyncConfig: enabled, sync_skills, active connection
    central,     \* remote ~/.ai-toolbox/skills/<name>: content or ABSENT/PARTIAL
    marker,      \* remote ~/.ai-toolbox/skills/<name>/.synced_hash
    link,        \* remote <tool skills dir>/<name>
    pc,          \* position of sync_skills_to_ssh: idle | delete | loop
    queue,       \* skills the running loop still has to visit
    run,         \* what the current (or last) run did and returned
    prev,        \* what the run before it did
    sync_status, \* persisted last_sync_time / last_sync_status / last_sync_error
    dirty,       \* a local change happened since the last run ended
    removed,     \* names of skills deleted locally so far
    budget,      \* remaining transport faults, local changes and runs
    mappings,    \* file mappings handed to sync_mappings
    module_filter, \* Option<&str> handed to sync_mappings
    mpc,         \* position of sync_mappings: idle | loop | done
    todo,        \* filtered_mappings still to visit
    attempts,    \* mapping id -> number of sync_file_mapping calls
    result,      \* SyncResult under construction / returned
    pass,        \* concurrent passes of sync_skills_to_ssh: pass -> position
    db_skill,    \* table skill: record id -> Skill record
    db_skill_target, \* table skill_target: the SkillTarget records
    store_log,   \* the last skill_store call and what it returned
    settings,    \* skill_settings: central_repo_path ("" when not set)
    fs_central,  \* the skill directories that exist in the central repositories
    fs_target,   \* what is at each path of the tools' skills directories
    installed,   \* is_tool_installed, per tool
    call,        \* the skills command each task is in, its arguments and locals
    last_done,   \* the command that returned last, nothing having happened since
    concurrent,  \* whether commands and changes overlap a running command
    calls_left,  \* commands and environment changes still to come
    raised,      \* the anyhow::Error a command is about to return: its chain
    err_kind,    \* the condition that made the command fail
    site,        \* the conversion the error passes through on its way out
    epc,         \* idle | raised | returned
    reply,       \* the String the command returned as its Err
    git,         \* clone_or_pull: its arguments, position, steps run and result
    watch,       \* run_cmd_with_timeout: clock, child and position of the loop
    cache,       \* the git cache root and the run of the janitor over it
    skill_settings, \* table skill_settings / settings record: key -> value
    mcp,         \* the remote MCP configuration files and the sync run
    paths,       \* the path handed to the path helpers and what they returned
    lock,        \* the single-instance lock file and the processes around it
    ssh,         \* the stored SSH sync configuration and the command at work
    claude       \* the remote ~/.claude.json and the MCP sync writing it

vars == <<skills, config, central, marker, link, pc, queue, run, prev,
          sync_status, dirty, removed, budget,
          mappings, module_filter, mpc, todo, attempts, result,
          pass, db_skill, db_skill_target, store_log,
          settings, fs_central, fs_target, installed, call, last_done,
          concurrent, calls_left, raised, err_kind, site, epc, reply,
          git, watch, cache, skill_settings, mcp, paths, lock,
          ssh, claude>>

skillVars == <<skills, config, central, marker, link, pc, queue, run, prev,
               sync_status, dirty, removed, budget>>

mapVars == <<mappings, module_filter, mpc, todo, attempts, result>>

concVars == <<pass>>

storeVars == <<db_skill, db_skill_target, store_log>>

cmdVars == <<settings, fs_central, fs_target, installed, call, last_done,
             concurrent, calls_left>>

fmtVars == <<raised, err_kind, site, epc, reply>>

earlierVars == <<skillVars, mapVars, concVars, storeVars, cmdVars, fmtVars>>

laterVars == <<git, watch, cache, skill_settings, mcp, paths, lock>>

lastVars == <<ssh, claude>>

\* what the actions of one part leave alone
notSkillVars == <<mapVars, concVars, storeVars, cmdVars, fmtVars, laterVars,
                 lastVars>>
notMapVars == <<skillVars, concVars, storeVars, cmdVars, fmtVars, laterVars,
                 lastVars>>
notConcVars == <<pc, queue, run, prev, dirty, removed, budget, mapVars, storeVars,
                 cmdVars, fmtVars, laterVars,
                 lastVars>>
notStoreVars == <<skillVars, mapVars, concVars, cmdVars, fmtVars, laterVars,
                 lastVars>>
notCmdVars == <<skillVars, mapVars, concVars, store_log, fmtVars, laterVars,
                 lastVars>>
notFmtVars == <<skillVars, mapVars, concVars, storeVars, cmdVars, laterVars,
                 lastVars>>
notGitVars == <<earlierVars, watch, cache, skill_settings, mcp, paths, lock,
                 lastVars>>
notWatchVars == <<earlierVars, git, cache, skill_settings, mcp, paths, lock,
                 lastVars>>
notCacheVars == <<earlierVars, git, watch, skill_settings, mcp, paths, lock,
                 lastVars>>
notSettingsVars == <<earlierVars, git, watch, cache, mcp, paths, lock,
                 lastVars>>
notMcpVars == <<earlierVars, git, watch, cache, skill_settings, paths, lock,
                 lastVars>>
notPathVars == <<earlierVars, git, watch, cache, skill_settings, mcp, lock,
                 lastVars>>
notLockVars == <<earlierVars, git, watch, cache, skill_settings, mcp, paths,
                 lastVars>>
notSshVars == <<earlierVars, laterVars, claude>>
notClaudeVars == <<earlierVars, laterVars, ssh>>

----------------------------------------------------------------------------
(* Bounds *)

MaxFaults == 1
MaxChanges == 1
MaxRuns == 2
MaxMappings == 3

----------------------------------------------------------------------------
(* Universe *)

Names == {"a", "b"}

\* BUILTIN_TOOLS keys; "t2" stands for a tool whose relative_skills_dir is None
Tools == {"t1", "t2"}

Contents == {"c1", "c2"}

ABSENT == "ABSENT"
PARTIAL == "PARTIAL"

\* hash_dir of a content version
HashOf(c) == IF c = "c1" THEN "h1" ELSE "h2"

NoSkill ==
    [present |-> FALSE, content |-> "c1", content_hash |-> "",
     enabled_tools |-> {}, source_exists |-> FALSE]

\* tools with relative_skills_dir.is_some()
get_all_skill_tool_keys == {"t1"}

\* Some(dir) exactly for the tools that have a skills directory
get_remote_tool_skills_dir(tool_key) == tool_key \in get_all_skill_tool_keys

----------------------------------------------------------------------------
(* Inputs *)

SkillRecords ==
    {NoSkill} \cup
    [present : {TRUE}, content : {"c1"}, content_hash : {"", HashOf("c1")},
     enabled_tools : SUBSET get_all_skill_tool_keys, source_exists : {TRUE}]

\* the configurations: everything switched on, or exactly one thing missing
ConfigSet ==
    {c \in [enabled : BOOLEAN, sync_skills : BOOLEAN, active_connection : BOOLEAN] :
        Cardinality({f \in {"enabled", "sync_skills", "active_connection"} : ~c[f]}) <= 1}

NoRun ==
    [no |-> 0, result |-> "none", listed |-> {}, transfers |-> {}, copied |-> {},
     created |-> {}, visited |-> {}, skipped |-> {}, faults |-> {},
     errors |-> <<>>, success |-> TRUE, in_a_row |-> FALSE]

NoResult ==
    [success |-> TRUE, synced_files |-> <<>>, skipped_files |-> <<>>, errors |-> <<>>]

NoStatus ==
    [last_sync_time |-> 0, last_sync_status |-> "none", last_sync_error |-> "none"]

\* an operation of the transport: <<primitive, tool or "-", skill name>>
Op(kind, tool, name) == <<kind, tool, name>>

----------------------------------------------------------------------------
(* Transport primitives (ssh/sync.rs; wsl/sync.rs has the same set) *)

\* read_remote_file(..).unwrap_or_default().trim(): a missing file prints an
\* empty line, a failed command yields the default (empty) string
read_remote_file(name, ok) ==
    IF ok /\ marker[name] # ABSENT THEN marker[name] ELSE ""

\* list_remote_dir(..).unwrap_or_default(): the entries of the central dir
list_remote_dir(ok) ==
    IF ok THEN {n \in Names : central[n] # ABSENT} ELSE {}

\* faulty variant: the check never answers "yes"
check_remote_symlink_exists_never(tool, name, ok) == FALSE

\* check_remote_symlink_exists: "yes" only for a symlink whose readlink is the
\* expected target; a command that cannot run counts as "no"
check_remote_symlink_exists(tool, name, ok) ==
    ok /\ link[tool][name] = "link"

\* sync_directory: mkdir -p parent && rm -rf target, then scp -r.  On
\* failure the target is untouched, already removed, or partly copied.
CopyFailModes == {"unchanged", "removed", "partial"}

sync_directory(name, content, ok, mode) ==
    IF ok THEN content
    ELSE IF mode = "unchanged" THEN central[name]
    ELSE IF mode = "removed" THEN ABSENT
    ELSE PARTIAL

\* the marker lives inside the directory sync_directory replaces
marker_after_copy(name, ok, mode) ==
    IF ~ok /\ mode = "unchanged" THEN marker[name] ELSE ABSENT

\* write_remote_file: mkdir -p && cat > path
write_remote_file(old, content, ok) ==
    IF ok THEN content ELSE old

\* create_remote_symlink: mkdir -p && rm -rf link && ln -s target link
CreateFailModes == {"unchanged", "removed"}

create_remote_symlink(tool, name, ok, mode) ==
    IF ok THEN "link"
    ELSE IF mode = "unchanged" THEN link[tool][name]
    ELSE "none"

\* remove_remote_path: rm -rf path
remove_remote_path(old, ok) ==
    IF ok THEN "none" ELSE old

----------------------------------------------------------------------------
(* sync_skills_to_ssh (ssh/skills_sync.rs) / sync_skills_to_wsl *)

\* skills.iter().map(|s| s.name).collect()
local_skill_names == {n \in Names : skills[n].present}

\* faulty variant: every skill is taken to need an update
needs_update_always(remote_hash, local_hash) == TRUE

\* remote_hash != local_hash
needs_update(remote_hash, local_hash) == remote_hash # local_hash

\* the orders in which get_managed_skills can return the skills
Orders(S) ==
    {q \in UNION {[1..k -> S] : k \in {Cardinality(S)}} :
        \A i, j \in DOMAIN q : i # j => q[i] # q[j]}

\* update_sync_status: ("success", None) or ("error", errors.join("; "))
update_sync_status(res, now) ==
    [last_sync_time |-> now,
     last_sync_status |-> IF res.success THEN "success" ELSE "error",
     last_sync_error |-> IF res.success THEN "none" ELSE "errors"]

Spend(k) == [budget EXCEPT !.faults = @ - k]

\* the early returns: sync switched off, or no active connection -> Ok(())
SkipRun ==
    /\ pc = "idle"
    /\ budget.runs > 0
    /\ ~(config.enabled /\ config.sync_skills /\ config.active_connection)
    /\ prev' = run
    /\ run' = [NoRun EXCEPT !.no = run.no + 1, !.result = "skipped"]
    /\ budget' = [budget EXCEPT !.runs = @ - 1]
    /\ UNCHANGED <<skills, config, central, marker, link, pc, queue,
                   sync_status, dirty, removed>>
    /\ UNCHANGED notSkillVars

\* load the skills and list the remote central directory
BeginRun ==
    /\ pc = "idle"
    /\ budget.runs > 0
    /\ config.enabled /\ config.sync_skills /\ config.active_connection
    /\ \E ok \in BOOLEAN, q \in Orders(local_skill_names) :
        /\ ~ok => budget.faults > 0
        /\ prev' = run
        /\ run' = [NoRun EXCEPT
                     !.no = run.no + 1,
                     !.result = "running",
                     !.listed = list_remote_dir(ok),
                     !.faults = IF ok THEN {} ELSE {Op("list", "-", "-")},
                     !.in_a_row = (run.result \in {"ok", "err"}) /\ ~dirty]
        /\ queue' = q
        /\ budget' = [budget EXCEPT !.runs = @ - 1,
                                    !.faults = IF ok THEN @ ELSE @ - 1]
    /\ pc' = "delete"
    /\ UNCHANGED <<skills, config, central, marker, link, sync_status, dirty, removed>>
    /\ UNCHANGED notSkillVars

\* step 3: delete what is on the remote and no longer local; every result
\* of remove_remote_path is dropped (let _ =)
DeleteOps(stale) ==
    {Op("unlink", t, n) : t \in get_all_skill_tool_keys, n \in stale}
        \cup {Op("rmdir", "-", n) : n \in stale}

\* variant: every listed entry is taken for a removed skill
all_remote_skills(listed) == listed

\* the listed entries with !local_skill_names.contains(remote_skill)
removed_remote_skills(listed) == listed \ local_skill_names

DeleteRemoved ==
    /\ pc = "delete"
    /\ LET stale == removed_remote_skills(run.listed) IN
       \E F \in SUBSET DeleteOps(stale) :
        /\ Cardinality(F) <= budget.faults
        /\ link' = [t \in get_all_skill_tool_keys |-> [n \in Names |->
                      IF n \in stale
                      THEN remove_remote_path(link[t][n], Op("unlink", t, n) \notin F)
                      ELSE link[t][n]]]
        /\ central' = [n \in Names |->
                      IF n \in stale /\ Op("rmdir", "-", n) \notin F
                      THEN ABSENT ELSE central[n]]
        /\ marker' = [n \in Names |->
                      IF n \in stale /\ Op("rmdir", "-", n) \notin F
                      THEN ABSENT ELSE marker[n]]
        /\ run' = [run EXCEPT !.faults = @ \cup F]
        /\ budget' = Spend(Cardinality(F))
    /\ pc' = "loop"
    /\ UNCHANGED <<skills, config, queue, prev, sync_status, dirty, removed>>
    /\ UNCHANGED notSkillVars

\* the remote operations one loop iteration can issue for skill n
IterOps(n) ==
    {Op("read", "-", n), Op("copy", "-", n), Op("marker", "-", n)}
        \cup {Op(k, t, n) : k \in {"check", "create", "remove"},
                            t \in get_all_skill_tool_keys}

\* step 4, one iteration of the loop over the skills.  F is the set of
\* operations of this iteration that fail.
ProcessSkill ==
    /\ pc = "loop"
    /\ queue # <<>>
    /\ LET n == Head(queue)
           skill == skills[n]
       IN
       IF ~skill.source_exists
       THEN \* source not found: continue
            /\ queue' = Tail(queue)
            /\ run' = [run EXCEPT !.skipped = @ \cup {n}]
            /\ UNCHANGED <<central, marker, link, pc, dirty, budget>>
       ELSE
       \E F \in SUBSET IterOps(n), cmode \in CopyFailModes, lmode \in CreateFailModes :
        LET ok(kind, t) == Op(kind, t, n) \notin F
            remote_hash == read_remote_file(n, ok("read", "-"))
            local_hash == skill.content_hash
            update == needs_update(remote_hash, local_hash)
            copy_ok == ok("copy", "-")
            wrote == update /\ copy_ok
            \* sync_directory Err -> return Err; write_remote_file(..)? -> Err
            abort == update /\ (~copy_ok \/ ~ok("marker", "-"))
            enabled == {t \in skill.enabled_tools : get_remote_tool_skills_dir(t)}
            disabled == get_all_skill_tool_keys \ skill.enabled_tools
            tocreate == {t \in enabled : ~check_remote_symlink_exists(t, n, ok("check", t))}
            issued == {Op("read", "-", n)}
                        \cup (IF update THEN {Op("copy", "-", n)} ELSE {})
                        \cup (IF wrote THEN {Op("marker", "-", n)} ELSE {})
                        \cup (IF abort THEN {}
                              ELSE {Op("check", t, n) : t \in enabled}
                                    \cup {Op("create", t, n) : t \in tocreate}
                                    \cup {Op("remove", t, n) : t \in disabled})
        IN
        /\ Cardinality(F) <= budget.faults
        /\ F \subseteq issued
        /\ (update /\ ~copy_ok) \/ cmode = "unchanged"
        /\ (\E t \in tocreate : ~abort /\ ~ok("create", t)) \/ lmode = "unchanged"
        /\ central' = [central EXCEPT ![n] =
                         IF update THEN sync_directory(n, skill.content, copy_ok, cmode)
                         ELSE @]
        /\ marker' = [marker EXCEPT ![n] =
                         IF ~update THEN @
                         ELSE IF wrote
                         THEN write_remote_file(marker_after_copy(n, TRUE, cmode),
                                                local_hash, ok("marker", "-"))
                         ELSE marker_after_copy(n, FALSE, cmode)]
        /\ link' = [t \in get_all_skill_tool_keys |-> [m \in Names |->
                      IF m # n \/ abort THEN link[t][m]
                      ELSE IF t \in tocreate
                      THEN create_remote_symlink(t, n, ok("create", t), lmode)
                      ELSE IF t \in disabled
                      THEN remove_remote_path(link[t][n], ok("remove", t))
                      ELSE link[t][n]]]
        /\ run' = [run EXCEPT
                     !.visited = @ \cup {n},
                     !.transfers = IF update THEN @ \cup {n} ELSE @,
                     !.copied = IF wrote THEN @ \cup {n} ELSE @,
                     !.created = IF abort THEN @
                                 ELSE @ \cup {<<t, n>> : t \in {u \in tocreate : ok("create", u)}},
                     !.faults = @ \cup F,
                     !.result = IF abort THEN "err" ELSE @]
        /\ budget' = Spend(Cardinality(F))
        /\ IF abort
           THEN pc' = "idle" /\ queue' = <<>> /\ dirty' = FALSE
           ELSE pc' = pc /\ queue' = Tail(queue) /\ dirty' = dirty
    /\ UNCHANGED <<skills, config, prev, sync_status, removed>>
    /\ UNCHANGED notSkillVars

\* after the loop: persist SyncResult{success: true, errors: vec![]}, Ok(())
FinishRun ==
    /\ pc = "loop"
    /\ queue = <<>>
    /\ LET sync_result == [NoResult EXCEPT !.success = TRUE, !.errors = <<>>] IN
        /\ sync_status' = update_sync_status(sync_result, run.no)
        /\ run' = [run EXCEPT !.result = "ok",
                              !.success = sync_result.success,
                              !.errors = sync_result.errors]
    /\ pc' = "idle"
    /\ dirty' = FALSE
    /\ UNCHANGED <<skills, config, central, marker, link, queue, prev, removed, budget>>
    /\ UNCHANGED notSkillVars

----------------------------------------------------------------------------
(* Local changes between runs (skills/commands.rs) *)

Change == [budget EXCEPT !.changes = @ - 1]

\* skills_delete_managed: the record and the central directory go
DeleteSkill(n) ==
    /\ pc = "idle"
    /\ budget.changes > 0
    /\ skills[n].present
    /\ skills' = [skills EXCEPT ![n] = NoSkill]
    /\ removed' = removed \cup {n}
    /\ dirty' = TRUE
    /\ budget' = Change
    /\ UNCHANGED <<config, central, marker, link, pc, queue, run, prev, sync_status>>
    /\ UNCHANGED notSkillVars

\* skills_update_managed: new content, hash recomputed
UpdateSkill(n) ==
    /\ pc = "idle"
    /\ budget.changes > 0
    /\ skills[n].present /\ skills[n].source_exists
    /\ skills[n].content = "c1"
    /\ skills' = [skills EXCEPT ![n].content = "c2", ![n].content_hash = HashOf("c2")]
    /\ dirty' = TRUE
    /\ budget' = Change
    /\ UNCHANGED <<config, central, marker, link, pc, queue, run, prev, sync_status, removed>>
    /\ UNCHANGED notSkillVars

\* skills_sync_to_tool / skills_unsync_from_tool: tool t switched on or off
ToggleTool(n, t) ==
    /\ pc = "idle"
    /\ budget.changes > 0
    /\ skills[n].present
    /\ skills' = [skills EXCEPT ![n].enabled_tools =
                     IF t \in @ THEN @ \ {t} ELSE @ \cup {t}]
    /\ dirty' = TRUE
    /\ budget' = Change
    /\ UNCHANGED <<config, central, marker, link, pc, queue, run, prev, sync_status, removed>>
    /\ UNCHANGED notSkillVars

\* the skill's directory in the central repository disappears
LoseSource(n) ==
    /\ pc = "idle"
    /\ budget.changes > 0
    /\ skills[n].present /\ skills[n].source_exists
    /\ skills' = [skills EXCEPT ![n].source_exists = FALSE]
    /\ dirty' = TRUE
    /\ budget' = Change
    /\ UNCHANGED <<config, central, marker, link, pc, queue, run, prev, sync_status, removed>>
    /\ UNCHANGED notSkillVars

----------------------------------------------------------------------------
(* Specification of the skills sync *)

MapIdle ==
    /\ mappings = <<>>
    /\ module_filter = "none"
    /\ mpc = "idle"
    /\ todo = <<>>
    /\ attempts = <<>>
    /\ result = NoResult

\* the tasks that can run sync_skills_to_ssh at the same time
Passes == {1, 2}

NoPass == [pc |-> "idle", queue |-> <<>>, listed |-> {}, tocreate |-> {}]

ConcIdle == pass = [p \in Passes |-> NoPass]

\* skill ids (uuid strings) and the SkillTarget ids the store can hold
SkillIds == {"s1", "s2"}

\* String::new(): the id of a record that has not been stored yet
NoId == 0

\* no row under this id; `used` remembers that the uuid was handed out once
NoSkillRow == [exists |-> FALSE, used |-> FALSE, name |-> "-", central_path |-> <<"-", "-">>]

\* the row is gone; what it held is kept to speak about the deleted skill
DeletedSkillRow(row) == [row EXCEPT !.exists = FALSE]

NoStoreCall == [op |-> "none", ret |-> "none", found |-> FALSE, arg |-> NoId]

StoreIdle ==
    /\ db_skill = [i \in SkillIds |-> NoSkillRow]
    /\ db_skill_target = {}
    /\ store_log = NoStoreCall

MaxCalls == 4

\* the tasks of the async runtime that can be inside a skills command
Tasks == {1, 2}

\* tool keys of the adapters (tool_adapters)
LocalTools == {"t1", "t2"}

\* a path in a tool's skills directory: <<tool, entry name>>
TargetPaths == {<<t, n>> : t \in LocalTools, n \in Names}

\* app_data_dir/skills, and a directory the user can choose instead
DefaultRoot == "r0"
Roots == {DefaultRoot, "r1"}

NoPath == <<"-", "-">>

\* nothing at a path
NoEntry == [kind |-> "none", source |-> NoPath]

\* a directory the user put there
Foreign == [kind |-> "foreign", source |-> NoPath]

NoRet == [status |-> "none", prefix |-> "-", detail |-> NoPath]

NoCall ==
    [no |-> 0, cmd |-> "idle", pc |-> "idle", skillId |-> "-", tool |-> "-", name |-> "-",
     sourcePath |-> NoPath, overwrite |-> FALSE, target |-> NoPath,
     targets |-> {}, failures |-> FALSE, found |-> FALSE, existed |-> FALSE,
     after |-> NoRet, ret |-> NoRet]

NoDone == [cmd |-> "none", skillId |-> "-", tool |-> "-", overwrite |-> FALSE,
           ret |-> NoRet]

CmdIdle ==
    /\ settings = [central_repo_path |-> ""]
    /\ fs_central = {}
    /\ fs_target = [q \in TargetPaths |-> NoEntry]
    /\ installed = [t \in LocalTools |-> FALSE]
    /\ call = [k \in Tasks |-> NoCall]
    /\ last_done = NoDone
    /\ concurrent = FALSE
    /\ calls_left = MaxCalls

FmtIdle ==
    /\ raised = <<>>
    /\ err_kind = "none"
    /\ site = "none"
    /\ epc = "idle"
    /\ reply = <<>>

GitIdle == git = [pc |-> "idle"]

WatchIdle == watch = [pc |-> "idle"]

CacheIdle == cache = [pc |-> "idle"]

SettingsIdle == skill_settings = [pc |-> "idle"]

McpIdle == mcp = [pc |-> "idle"]

PathIdle == paths = [pc |-> "idle"]

LockIdle == lock = [pc |-> "idle"]

SshIdle == ssh = [pc |-> "idle"]

ClaudeIdle == claude = [pc |-> "idle"]

LastIdle ==
    /\ SshIdle
    /\ ClaudeIdle

LaterIdle ==
    /\ GitIdle
    /\ WatchIdle
    /\ CacheIdle
    /\ SettingsIdle
    /\ McpIdle
    /\ PathIdle
    /\ LockIdle

Init ==
    /\ skills \in [Names -> SkillRecords]
    /\ config \in ConfigSet
    /\ central = [n \in Names |-> ABSENT]
    /\ marker = [n \in Names |-> ABSENT]
    /\ link = [t \in get_all_skill_tool_keys |-> [n \in Names |-> "none"]]
    /\ pc = "idle"
    /\ queue = <<>>
    /\ run = NoRun
    /\ prev = NoRun
    /\ sync_status = NoStatus
    /\ dirty = FALSE
    /\ removed = {}
    /\ budget = [faults |-> MaxFaults, changes |-> MaxChanges, runs |-> MaxRuns]
    /\ MapIdle
    /\ ConcIdle
    /\ StoreIdle
    /\ CmdIdle
    /\ FmtIdle
    /\ LaterIdle
    /\ LastIdle

Next ==
    \/ SkipRun
    \/ BeginRun
    \/ DeleteRemoved
    \/ ProcessSkill
    \/ FinishRun
    \/ \E n \in Names : DeleteSkill(n)
    \/ \E n \in Names : UpdateSkill(n)
    \/ \E n \in Names, t \in Tools : ToggleTool(n, t)
    \/ \E n \in Names : LoseSource(n)

Spec == Init /\ [][Next]_vars

\* a directory of the user's own, not a symlink, under a skill's name
OWN_DIR == "dir"

\* the same program on a remote where a tool's skills directory may already
\* hold a real directory under the name of a skill
OwnDirInit ==
    /\ skills \in [Names -> SkillRecords]
    /\ config \in ConfigSet
    /\ central = [n \in Names |-> ABSENT]
    /\ marker = [n \in Names |-> ABSENT]
    /\ \E own \in Names :
        link = [t \in get_all_skill_tool_keys |-> [n \in Names |->
                    IF n = own THEN OWN_DIR ELSE "none"]]
    /\ pc = "idle"
    /\ queue = <<>>
    /\ run = NoRun
    /\ prev = NoRun
    /\ sync_status = NoStatus
    /\ dirty = FALSE
    /\ removed = {}
    /\ budget = [faults |-> MaxFaults, changes |-> MaxChanges, runs |-> MaxRuns]
    /\ MapIdle
    /\ ConcIdle
    /\ StoreIdle
    /\ CmdIdle
    /\ FmtIdle
    /\ LaterIdle
    /\ LastIdle

OwnDirSpec == OwnDirInit /\ [][Next]_vars

----------------------------------------------------------------------------
(* sync_mappings (ssh/sync.rs), sync_mappings_with_progress (ssh/commands.rs) *)
(* and sync_mappings (wsl/sync.rs): the same loop                            *)

Modules == {"opencode", "claude"}

\* SSHFileMapping, as far as the loop reads it; the position is the id/name
MappingRecords == [module : Modules, enabled : BOOLEAN]

\* what sync_file_mapping can return
Outcomes == {"Ok_empty", "Ok_files", "Err"}

\* faulty variant: the enabled flag is not looked at
filtered_mappings_any_state(ms, filter) ==
    SelectSeq([i \in 1..Len(ms) |-> i],
              LAMBDA i : filter = "none" \/ ms[i].module = filter)

\* .filter(|m| m.enabled).filter(|m| module_filter.is_none() || m.module == filter)
filtered_mappings(ms, filter) ==
    SelectSeq([i \in 1..Len(ms) |-> i],
              LAMBDA i : ms[i].enabled /\ (filter = "none" \/ ms[i].module = filter))

\* SyncResult { success: errors.is_empty(), .. }
sync_result(synced, skipped, errors) ==
    [success |-> errors = <<>>, synced_files |-> synced,
     skipped_files |-> skipped, errors |-> errors]

SkillsIdle ==
    /\ skills = [n \in Names |-> NoSkill]
    /\ config = [enabled |-> TRUE, sync_skills |-> TRUE, active_connection |-> TRUE]
    /\ central = [n \in Names |-> ABSENT]
    /\ marker = [n \in Names |-> ABSENT]
    /\ link = [t \in get_all_skill_tool_keys |-> [n \in Names |-> "none"]]
    /\ pc = "idle"
    /\ queue = <<>>
    /\ run = NoRun
    /\ prev = NoRun
    /\ sync_status = NoStatus
    /\ dirty = FALSE
    /\ removed = {}
    /\ budget = [faults |-> MaxFaults, changes |-> MaxChanges, runs |-> MaxRuns]

\* entry: the accumulators are empty, the mappings are filtered
MapBegin ==
    /\ mpc = "idle"
    /\ todo' = filtered_mappings(mappings, module_filter)
    /\ result' = [success |-> FALSE, synced_files |-> <<>>,
                  skipped_files |-> <<>>, errors |-> <<>>]
    /\ mpc' = "loop"
    /\ UNCHANGED <<mappings, module_filter, attempts>>
    /\ UNCHANGED notMapVars

\* one iteration: match sync_file_mapping(mapping, conn)
MapStep ==
    /\ mpc = "loop"
    /\ todo # <<>>
    /\ \E o \in Outcomes :
        LET i == Head(todo) IN
        /\ attempts' = [attempts EXCEPT ![i] = [n |-> @.n + 1, outcome |-> o]]
        /\ result' =
             IF o = "Ok_empty" THEN [result EXCEPT !.skipped_files = Append(@, i)]
             ELSE IF o = "Ok_files" THEN [result EXCEPT !.synced_files = Append(@, i)]
             ELSE [result EXCEPT !.errors = Append(@, i)]
    /\ todo' = Tail(todo)
    /\ UNCHANGED <<mappings, module_filter, mpc>>
    /\ UNCHANGED notMapVars

\* after the loop: build the SyncResult
MapFinish ==
    /\ mpc = "loop"
    /\ todo = <<>>
    /\ result' = sync_result(result.synced_files, result.skipped_files, result.errors)
    /\ mpc' = "done"
    /\ UNCHANGED <<mappings, module_filter, todo, attempts>>
    /\ UNCHANGED notMapVars

MapInit ==
    /\ SkillsIdle
    /\ ConcIdle
    /\ StoreIdle
    /\ CmdIdle
    /\ FmtIdle
    /\ LaterIdle
    /\ LastIdle
    /\ mappings \in UNION {[1..k -> MappingRecords] : k \in 0..MaxMappings}
    /\ module_filter \in Modules \cup {"none"}
    /\ mpc = "idle"
    /\ todo = <<>>
    /\ attempts = [i \in 1..Len(mappings) |-> [n |-> 0, outcome |-> "none"]]
    /\ result = NoResult

MapNext == MapBegin \/ MapStep \/ MapFinish

MapSpec == MapInit /\ [][MapNext]_vars

----------------------------------------------------------------------------
(* Two tasks in sync_skills_to_ssh at once (ssh/skills_sync.rs).  The      *)
(* function takes no lock: the skills-changed listener and ssh_sync can    *)
(* both be inside it.  Every spawned ssh/scp command is one step, and in   *)
(* this part every command succeeds.                                       *)

\* a directory that holds only the marker file
EMPTY == "EMPTY"

\* a directory with a second copy of the skill in a subdirectory
NESTED == "NESTED"

\* what a pass can find on the remote for one skill when it starts
RemoteStates ==
    {[central |-> ABSENT, marker |-> ABSENT, link |-> "none"],
     [central |-> "c2", marker |-> HashOf("c2"), link |-> "link"],
     [central |-> "c1", marker |-> HashOf("c1"), link |-> "link"]}

\* the skills of this part: hash computed, source directory in place
ConcSkillRecords ==
    {NoSkill} \cup
    [present : {TRUE}, content : {"c1"}, content_hash : {HashOf("c1")},
     enabled_tools : SUBSET get_all_skill_tool_keys, source_exists : {TRUE}]

\* get_managed_skills: ORDER BY updated_at DESC, the same for both passes
\* while the table does not change
managed_skills == CHOOSE q \in Orders(local_skill_names) : TRUE

\* sync_directory, first command: mkdir -p parent && rm -rf target
prepare_remote_directory(old) == ABSENT

\* sync_directory, second command: scp -r source target.  A target that
\* exists receives the source as a subdirectory.
scp_r(old, content) ==
    IF old = ABSENT THEN content ELSE NESTED

\* write_remote_file on the marker: mkdir -p target && cat > target/.synced_hash
mkdir_p(old) == IF old = ABSENT THEN EMPTY ELSE old

Goto(p, label) == [pass EXCEPT ![p].pc = label]

\* entry: config and connection are there; list the remote central dir
PassStart(p) ==
    /\ pass[p].pc = "idle"
    /\ config.enabled /\ config.sync_skills /\ config.active_connection
    /\ pass' = [pass EXCEPT ![p] = [pc |-> "delete", queue |-> managed_skills,
                                    listed |-> list_remote_dir(TRUE), tocreate |-> {}]]
    /\ UNCHANGED <<skills, config, central, marker, link, sync_status>>
    /\ UNCHANGED notConcVars

\* step 3: remove what is listed and no longer local
PassDelete(p) ==
    /\ pass[p].pc = "delete"
    /\ LET stale == pass[p].listed \ local_skill_names IN
        /\ link' = [t \in get_all_skill_tool_keys |-> [n \in Names |->
                      IF n \in stale THEN remove_remote_path(link[t][n], TRUE)
                      ELSE link[t][n]]]
        /\ central' = [n \in Names |-> IF n \in stale THEN ABSENT ELSE central[n]]
        /\ marker' = [n \in Names |-> IF n \in stale THEN ABSENT ELSE marker[n]]
    /\ pass' = Goto(p, "read")
    /\ UNCHANGED <<skills, config, sync_status>>
    /\ UNCHANGED notConcVars

\* step 4: read the marker of the next skill and compare
PassRead(p) ==
    /\ pass[p].pc = "read"
    /\ pass[p].queue # <<>>
    /\ LET n == Head(pass[p].queue) IN
       IF ~skills[n].source_exists
       THEN pass' = [pass EXCEPT ![p].queue = Tail(@)]
       ELSE IF needs_update(read_remote_file(n, TRUE), skills[n].content_hash)
       THEN pass' = Goto(p, "prepare")
       ELSE pass' = Goto(p, "check")
    /\ UNCHANGED <<skills, config, central, marker, link, sync_status>>
    /\ UNCHANGED notConcVars

\* sync_directory: the ssh command that clears the target
PassPrepare(p) ==
    /\ pass[p].pc = "prepare"
    /\ LET n == Head(pass[p].queue) IN
        /\ central' = [central EXCEPT ![n] = prepare_remote_directory(@)]
        /\ marker' = [marker EXCEPT ![n] =
                        IF central'[n] = ABSENT THEN ABSENT ELSE @]
    /\ pass' = Goto(p, "scp")
    /\ UNCHANGED <<skills, config, link, sync_status>>
    /\ UNCHANGED notConcVars

\* sync_directory: the scp command
PassScp(p) ==
    /\ pass[p].pc = "scp"
    /\ LET n == Head(pass[p].queue) IN
        central' = [central EXCEPT ![n] = scp_r(@, skills[n].content)]
    /\ pass' = Goto(p, "marker")
    /\ UNCHANGED <<skills, config, marker, link, sync_status>>
    /\ UNCHANGED notConcVars

\* write_remote_file(&conn, &hash_file, local_hash)
PassMarker(p) ==
    /\ pass[p].pc = "marker"
    /\ LET n == Head(pass[p].queue) IN
        /\ central' = [central EXCEPT ![n] = mkdir_p(@)]
        /\ marker' = [marker EXCEPT ![n] =
                        write_remote_file(@, skills[n].content_hash, TRUE)]
    /\ pass' = Goto(p, "check")
    /\ UNCHANGED <<skills, config, link, sync_status>>
    /\ UNCHANGED notConcVars

\* check_remote_symlink_exists for each enabled tool
PassCheck(p) ==
    /\ pass[p].pc = "check"
    /\ LET n == Head(pass[p].queue)
           enabled == {t \in skills[n].enabled_tools : get_remote_tool_skills_dir(t)}
       IN pass' = [pass EXCEPT
                     ![p].pc = "links",
                     ![p].tocreate =
                        {t \in enabled : ~check_remote_symlink_exists(t, n, TRUE)}]
    /\ UNCHANGED <<skills, config, central, marker, link, sync_status>>
    /\ UNCHANGED notConcVars

\* create_remote_symlink where the check said no; remove_remote_path for the
\* tools that are not enabled; then on to the next skill
PassLinks(p) ==
    /\ pass[p].pc = "links"
    /\ LET n == Head(pass[p].queue)
           disabled == get_all_skill_tool_keys \ skills[n].enabled_tools
       IN link' = [t \in get_all_skill_tool_keys |-> [m \in Names |->
                     IF m # n THEN link[t][m]
                     ELSE IF t \in pass[p].tocreate
                     THEN create_remote_symlink(t, n, TRUE, "unchanged")
                     ELSE IF t \in disabled
                     THEN remove_remote_path(link[t][n], TRUE)
                     ELSE link[t][n]]]
    /\ pass' = [pass EXCEPT ![p].pc = "read", ![p].queue = Tail(@),
                            ![p].tocreate = {}]
    /\ UNCHANGED <<skills, config, central, marker, sync_status>>
    /\ UNCHANGED notConcVars

\* after the loop: persist the status, Ok(())
PassFinish(p) ==
    /\ pass[p].pc = "read"
    /\ pass[p].queue = <<>>
    /\ sync_status' = update_sync_status([NoResult EXCEPT !.success = TRUE],
                                         sync_status.last_sync_time + 1)
    /\ pass' = Goto(p, "done")
    /\ UNCHANGED <<skills, config, central, marker, link>>
    /\ UNCHANGED notConcVars

ConcInit ==
    /\ skills \in [Names -> ConcSkillRecords]
    /\ skills["a"].present
    /\ config = [enabled |-> TRUE, sync_skills |-> TRUE, active_connection |-> TRUE]
    /\ \E r \in [Names -> RemoteStates] :
        /\ central = [n \in Names |-> r[n].central]
        /\ marker = [n \in Names |-> r[n].marker]
        /\ link = [t \in get_all_skill_tool_keys |-> [n \in Names |-> r[n].link]]
    /\ pc = "idle"
    /\ queue = <<>>
    /\ run = NoRun
    /\ prev = NoRun
    /\ sync_status = NoStatus
    /\ dirty = FALSE
    /\ removed = {}
    /\ budget = [faults |-> MaxFaults, changes |-> MaxChanges, runs |-> MaxRuns]
    /\ MapIdle
    /\ ConcIdle
    /\ StoreIdle
    /\ CmdIdle
    /\ FmtIdle
    /\ LaterIdle
    /\ LastIdle

ConcNext ==
    \/ \E p \in Passes : PassStart(p)
    \/ \E p \in Passes : PassDelete(p)
    \/ \E p \in Passes : PassRead(p)
    \/ \E p \in Passes : PassPrepare(p)
    \/ \E p \in Passes : PassScp(p)
    \/ \E p \in Passes : PassMarker(p)
    \/ \E p \in Passes : PassCheck(p)
    \/ \E p \in Passes : PassLinks(p)
    \/ \E p \in Passes : PassFinish(p)

ConcSpec == ConcInit /\ [][ConcNext]_vars

----------------------------------------------------------------------------
(* skill_store.rs: the tables skill and skill_target.  Every function      *)
(* takes the database mutex on entry and holds it until it returns, so a   *)
(* call is one step however the callers interleave.                        *)

MaxIds == 2

\* the record ids uuid::Uuid::new_v4() can hand out
TargetIds == 1..MaxIds

\* the SkillTarget values a caller can hand to upsert_skill_target
SkillTargets ==
    [id : {NoId} \cup TargetIds, skill_id : SkillIds, tool : LocalTools,
     target_path : {<<"t1", "a">>, <<"t2", "b">>}, mode : {"symlink"}]

\* SELECT .. FROM skill_target WHERE skill_id = $skill_id AND tool = $tool
select_target(T, skill_id, tool) ==
    {r \in T : r.skill_id = skill_id /\ r.tool = tool}

\* SELECT .. FROM skill_target WHERE skill_id = $skill_id
get_skill_targets(T, skill_id) == {r \in T : r.skill_id = skill_id}

\* faulty variant: no lookup of an existing row, always CREATE
upsert_skill_target_create_only(T, target, uuid) ==
    LET id == IF target.id = NoId THEN uuid ELSE target.id IN
    IF \E r \in T : r.id = id THEN T
    ELSE T \cup {[target EXCEPT !.id = id]}

\* upsert_skill_target: UPDATE the row found for (skill_id, tool), keeping
\* its id, else CREATE one under target.id or a new uuid; CREATE of a record
\* id that exists is refused by the database
upsert_skill_target(T, target, uuid) ==
    LET id == IF target.id = NoId THEN uuid ELSE target.id
        records == select_target(T, target.skill_id, target.tool)
    IN
    IF records # {}
    THEN LET existing == CHOOSE r \in records : TRUE IN
         (T \ {existing}) \cup {[target EXCEPT !.id = existing.id]}
    ELSE IF \E r \in T : r.id = id THEN T
    ELSE T \cup {[target EXCEPT !.id = id]}

\* faulty variant: the row stays
delete_skill_target_none(T, skill_id, tool) == T

\* DELETE FROM skill_target WHERE skill_id = $skill_id AND tool = $tool
delete_skill_target(T, skill_id, tool) ==
    T \ select_target(T, skill_id, tool)

\* faulty variant: the targets of the skill are left in the table
delete_targets_of_none(T, skill_id) == T

\* delete_skill, first statement: DELETE FROM skill_target WHERE skill_id = ..
delete_targets_of(T, skill_id) == T \ get_skill_targets(T, skill_id)

UsedIds == {r.id : r \in db_skill_target}

\* upsert_skill with an empty id: CREATE under a new uuid
StoreCreateSkill ==
    /\ \E i \in SkillIds, n \in Names :
        /\ ~db_skill[i].used
        /\ db_skill' = [db_skill EXCEPT ![i] =
                          [exists |-> TRUE, used |-> TRUE, name |-> n,
                           central_path |-> <<"r1", n>>]]
        /\ store_log' = [op |-> "upsert_skill", ret |-> "Ok", found |-> FALSE, arg |-> NoId]
    /\ UNCHANGED db_skill_target
    /\ UNCHANGED notStoreVars

StoreUpsertTarget ==
    /\ \E target \in SkillTargets :
       \E uuid \in (IF target.id = NoId THEN TargetIds \ UsedIds ELSE {target.id}) :
        /\ db_skill_target' = upsert_skill_target(db_skill_target, target, uuid)
        /\ store_log' =
             [op |-> "upsert_skill_target",
              ret |-> IF select_target(db_skill_target, target.skill_id, target.tool) = {}
                         /\ target.id \in UsedIds
                      THEN "Err" ELSE "Ok",
              found |-> select_target(db_skill_target, target.skill_id, target.tool) # {},
              arg |-> target.id]
    /\ UNCHANGED db_skill
    /\ UNCHANGED notStoreVars

StoreDeleteTarget ==
    /\ \E skill_id \in SkillIds, tool \in LocalTools :
        /\ db_skill_target' = delete_skill_target(db_skill_target, skill_id, tool)
        /\ store_log' = [op |-> "delete_skill_target", ret |-> "Ok",
                         found |-> select_target(db_skill_target, skill_id, tool) # {},
                         arg |-> NoId]
    /\ UNCHANGED db_skill
    /\ UNCHANGED notStoreVars

\* delete_skill: two statements; a statement that fails returns Err and
\* leaves what the earlier one did
StoreDeleteSkill ==
    /\ \E skill_id \in SkillIds, ok1, ok2 \in BOOLEAN :
        /\ db_skill_target' =
             IF ok1 THEN delete_targets_of(db_skill_target, skill_id)
             ELSE db_skill_target
        /\ db_skill' = IF ok1 /\ ok2 /\ db_skill[skill_id].exists
                       THEN [db_skill EXCEPT ![skill_id] = DeletedSkillRow(@)]
                       ELSE db_skill
        /\ store_log' = [op |-> "delete_skill",
                         ret |-> IF ok1 /\ ok2 THEN "Ok" ELSE "Err",
                         found |-> get_skill_targets(db_skill_target, skill_id) # {},
                         arg |-> NoId]
    /\ UNCHANGED notStoreVars

StoreInit ==
    /\ SkillsIdle
    /\ MapIdle
    /\ ConcIdle
    /\ StoreIdle
    /\ CmdIdle
    /\ FmtIdle
    /\ LaterIdle
    /\ LastIdle

StoreNext ==
    \/ StoreCreateSkill
    \/ StoreUpsertTarget
    \/ StoreDeleteTarget
    \/ StoreDeleteSkill

StoreSpec == StoreInit /\ [][StoreNext]_vars

----------------------------------------------------------------------------
(* The skills commands (skills/commands.rs).  A command runs on a task of  *)
(* the async runtime; it can be overtaken by another command wherever it   *)
(* awaits the database mutex, so a step is an await followed by the        *)
(* synchronous code up to the next await.  The front end calls a command   *)
(* with the fields of a skill that skills_get_managed_skills returned.     *)

\* resolve_central_repo_path: the configured path, else app_data_dir/skills
resolve_central_repo_path(st) ==
    IF st.central_repo_path # "" THEN st.central_repo_path ELSE DefaultRoot

\* adapter_by_key: Some(adapter) for the known tool keys
adapter_by_key(tool) == tool \in LocalTools

\* resolve_default_path / resolve_skills_path: the tool's skills directory
resolve_default_path(tool) == tool

\* faulty variant: one directory name for every skill
target_one_name(tool_root, name) == <<tool_root, "a">>

\* tool_root.join(&name)
target_path(tool_root, name) == <<tool_root, name>>

Link(source) == [kind |-> "link", source |-> source]

\* sync_engine::sync_dir_for_tool_with_overwrite: link the target to the
\* source; a target that is there and is not that link is a conflict
\* unless overwrite is set, and then it is removed first
sync_dir_for_tool_with_overwrite(entry, source, overwrite) ==
    IF entry = NoEntry THEN [ok |-> TRUE, entry |-> Link(source), msg |-> "-"]
    ELSE IF entry = Link(source) THEN [ok |-> TRUE, entry |-> entry, msg |-> "-"]
    ELSE IF overwrite THEN [ok |-> TRUE, entry |-> Link(source), msg |-> "-"]
    ELSE [ok |-> FALSE, entry |-> entry, msg |-> "target already exists"]

\* sync_engine::remove_path
remove_path(entry, ok) == IF ok THEN NoEntry ELSE entry

RetOk(detail) == [status |-> "Ok", prefix |-> "-", detail |-> detail]

RetErr(prefix, detail) == [status |-> "Err", prefix |-> prefix, detail |-> detail]

\* faulty variant: the conflict is passed on as any other error
sync_error_unmapped(msg, target) == RetErr("-", NoPath)

\* the map_err closure of skills_sync_to_tool
sync_error(msg, target) ==
    IF msg = "target already exists" THEN RetErr("TARGET_EXISTS|", target)
    ELSE RetErr("-", NoPath)

CanStart(k) ==
    /\ call[k].pc = "idle"
    /\ calls_left > 0
    /\ IF concurrent THEN TRUE ELSE k = 1

\* the command and arguments of a call, as last_done keeps them
Done(c, ret) ==
    [cmd |-> c.cmd, skillId |-> c.skillId, tool |-> c.tool,
     overwrite |-> c.overwrite, ret |-> ret]

\* task k enters command c: the record of the new call; `after` is what the
\* same command with the same arguments returned if it was the last thing
\* that happened
Enter(c) ==
    [c EXCEPT !.no = MaxCalls - calls_left + 1,
              !.after = IF last_done = Done(c, last_done.ret)
                        THEN last_done.ret ELSE NoRet]

\* task k is in c and goes on to the next await
Continue(k, c) ==
    /\ call' = [call EXCEPT ![k] = c]
    /\ last_done' = NoDone

\* task k returns ret from c
Return(k, c, ret) ==
    /\ call' = [call EXCEPT ![k] = [c EXCEPT !.pc = "idle", !.ret = ret]]
    /\ last_done' = Done(c, ret)

\* skills_sync_to_tool up to the await of upsert_skill_target
SyncToTool(k) ==
    /\ CanStart(k)
    /\ \E skillId \in SkillIds, tool \in LocalTools \cup {"tx"}, overwrite \in BOOLEAN :
        /\ db_skill[skillId].exists
        /\ LET name == db_skill[skillId].name
               sourcePath == db_skill[skillId].central_path
               target == target_path(resolve_default_path(tool), name)
               c == Enter([NoCall EXCEPT !.cmd = "sync", !.skillId = skillId,
                                         !.tool = tool, !.name = name,
                                         !.sourcePath = sourcePath,
                                         !.overwrite = overwrite])
           IN
           IF ~adapter_by_key(tool)
           THEN /\ Return(k, c, RetErr("unknown tool", NoPath))
                /\ UNCHANGED fs_target
           ELSE IF ~installed[tool]
           THEN /\ Return(k, c, RetErr("TOOL_NOT_INSTALLED|", <<tool, "-">>))
                /\ UNCHANGED fs_target
           ELSE LET synced == sync_dir_for_tool_with_overwrite(
                                  fs_target[target], sourcePath, overwrite)
                IN IF ~synced.ok
                   THEN /\ Return(k, [c EXCEPT !.target = target],
                                  sync_error(synced.msg, target))
                        /\ UNCHANGED fs_target
                   ELSE /\ fs_target' = [fs_target EXCEPT ![target] = synced.entry]
                        /\ Continue(k, [c EXCEPT !.pc = "upsert", !.target = target])
    /\ calls_left' = calls_left - 1
    /\ UNCHANGED <<db_skill, db_skill_target, settings, fs_central, installed, concurrent>>
    /\ UNCHANGED notCmdVars

\* faulty variant: the record is written and an error is returned
SyncUpsertThenErr(k) ==
    /\ call[k].pc = "upsert"
    /\ LET c == call[k]
           record == [id |-> NoId, skill_id |-> c.skillId, tool |-> c.tool,
                      target_path |-> c.target, mode |-> "symlink"]
           free == TargetIds \ UsedIds
       IN \E uuid \in (IF free # {} THEN free ELSE TargetIds) :
            /\ db_skill_target' = upsert_skill_target(db_skill_target, record, uuid)
            /\ Return(k, c, RetErr("-", NoPath))
    /\ UNCHANGED <<db_skill, settings, fs_central, fs_target, installed,
                   concurrent, calls_left>>
    /\ UNCHANGED notCmdVars

\* skills_sync_to_tool: upsert_skill_target(&record), Ok(SyncResultDto)
SyncUpsert(k) ==
    /\ call[k].pc = "upsert"
    /\ LET c == call[k]
           record == [id |-> NoId, skill_id |-> c.skillId, tool |-> c.tool,
                      target_path |-> c.target, mode |-> "symlink"]
           free == TargetIds \ UsedIds
       IN \E uuid \in (IF free # {} THEN free ELSE TargetIds) :
            /\ db_skill_target' = upsert_skill_target(db_skill_target, record, uuid)
            /\ Return(k, c, RetOk(c.target))
    /\ UNCHANGED <<db_skill, settings, fs_central, fs_target, installed,
                   concurrent, calls_left>>
    /\ UNCHANGED notCmdVars

\* skills_unsync_from_tool up to the await of delete_skill_target
UnsyncFromTool(k) ==
    /\ CanStart(k)
    /\ \E skillId \in SkillIds, tool \in LocalTools, ok \in BOOLEAN :
        /\ db_skill[skillId].exists
        /\ LET records == select_target(db_skill_target, skillId, tool)
               c == Enter([NoCall EXCEPT !.cmd = "unsync", !.skillId = skillId,
                                         !.tool = tool, !.found = records # {}])
           IN
           IF adapter_by_key(tool) /\ ~installed[tool]
           THEN \* the tool is not installed: do nothing
                /\ ok
                /\ Return(k, c, RetOk(NoPath))
                /\ UNCHANGED fs_target
           ELSE IF records = {}
           THEN /\ ok
                /\ Return(k, c, RetOk(NoPath))
                /\ UNCHANGED fs_target
           ELSE LET target == (CHOOSE r \in records : TRUE).target_path IN
                /\ fs_target' = [fs_target EXCEPT ![target] = remove_path(@, ok)]
                /\ IF ok
                   THEN Continue(k, [c EXCEPT !.pc = "delete_target", !.target = target])
                   ELSE Return(k, [c EXCEPT !.target = target], RetErr("-", target))
    /\ calls_left' = calls_left - 1
    /\ UNCHANGED <<db_skill, db_skill_target, settings, fs_central, installed, concurrent>>
    /\ UNCHANGED notCmdVars

\* skills_unsync_from_tool: delete_skill_target, Ok(())
UnsyncDelete(k) ==
    /\ call[k].pc = "delete_target"
    /\ db_skill_target' =
         delete_skill_target(db_skill_target, call[k].skillId, call[k].tool)
    /\ Return(k, call[k], RetOk(call[k].target))
    /\ UNCHANGED <<db_skill, settings, fs_central, fs_target, installed,
                   concurrent, calls_left>>
    /\ UNCHANGED notCmdVars

\* skills_delete_managed: get_skill_targets, then remove_path for each
\* target, collecting the failures
DeleteManaged(k) ==
    /\ CanStart(k)
    /\ \E skillId \in SkillIds :
        /\ db_skill[skillId].exists
        /\ LET targets == {r.target_path : r \in get_skill_targets(db_skill_target, skillId)}
           IN \E failed \in SUBSET targets :
                /\ fs_target' = [q \in TargetPaths |->
                                   IF q \in targets
                                   THEN remove_path(fs_target[q], q \notin failed)
                                   ELSE fs_target[q]]
                /\ Continue(k, Enter([NoCall EXCEPT
                                        !.cmd = "delete", !.skillId = skillId,
                                        !.pc = "get_skill", !.existed = TRUE,
                                        !.targets = targets,
                                        !.failures = failed # {}]))
    /\ calls_left' = calls_left - 1
    /\ UNCHANGED <<db_skill, db_skill_target, settings, fs_central, installed, concurrent>>
    /\ UNCHANGED notCmdVars

DeleteReturn(k, c) ==
    Return(k, c, IF c.failures THEN RetErr("-", NoPath) ELSE RetOk(NoPath))

\* skills_delete_managed: get_skill_by_id, then remove_dir_all of the
\* central path if it exists
DeleteGetSkill(k) ==
    /\ call[k].pc = "get_skill"
    /\ LET c == call[k]
           record == db_skill[c.skillId]
       IN IF ~record.exists
          THEN /\ DeleteReturn(k, c)
               /\ UNCHANGED fs_central
          ELSE \E ok \in BOOLEAN :
                /\ ~ok => record.central_path \in fs_central
                /\ IF ok
                   THEN /\ fs_central' = fs_central \ {record.central_path}
                        /\ Continue(k, [c EXCEPT !.pc = "delete_skill", !.found = TRUE])
                   ELSE /\ Return(k, c, RetErr("-", record.central_path))
                        /\ UNCHANGED fs_central
    /\ UNCHANGED <<db_skill, db_skill_target, settings, fs_target, installed,
                   concurrent, calls_left>>
    /\ UNCHANGED notCmdVars

\* skills_delete_managed: delete_skill, then Ok or the collected failures
DeleteSkillRecord(k) ==
    /\ call[k].pc = "delete_skill"
    /\ db_skill_target' = delete_targets_of(db_skill_target, call[k].skillId)
    /\ db_skill' = [db_skill EXCEPT ![call[k].skillId] =
                      IF @.exists THEN DeletedSkillRow(@) ELSE @]
    /\ DeleteReturn(k, call[k])
    /\ UNCHANGED <<settings, fs_central, fs_target, installed, concurrent, calls_left>>
    /\ UNCHANGED notCmdVars

\* skills_set_central_repo_path: expand, must be absolute, create, save
SetCentralRepoPath ==
    /\ calls_left > 0
    /\ \A k \in Tasks : concurrent \/ call[k].pc = "idle"
    /\ \E path \in {"", "relative"} \cup Roots :
        settings' = IF path \in Roots THEN [settings EXCEPT !.central_repo_path = path]
                    ELSE settings
    /\ last_done' = NoDone
    /\ calls_left' = calls_left - 1
    /\ UNCHANGED <<db_skill, db_skill_target, fs_central, fs_target, installed,
                   call, concurrent>>
    /\ UNCHANGED notCmdVars

\* installer::install_local_skill: copy the source into a new subdirectory
\* of the central repository and register the Skill record
InstallSkill ==
    /\ calls_left > 0
    /\ \A k \in Tasks : concurrent \/ call[k].pc = "idle"
    /\ \E i \in SkillIds : ~db_skill[i].used
    /\ \E n \in Names :
        LET central_path == <<resolve_central_repo_path(settings), n>>
            i == CHOOSE j \in SkillIds : ~db_skill[j].used
        IN
        /\ central_path \notin fs_central
        /\ fs_central' = fs_central \cup {central_path}
        /\ db_skill' = [db_skill EXCEPT ![i] =
                          [exists |-> TRUE, used |-> TRUE, name |-> n,
                           central_path |-> central_path]]
    /\ last_done' = NoDone
    /\ calls_left' = calls_left - 1
    /\ UNCHANGED <<db_skill_target, settings, fs_target, installed, call, concurrent>>
    /\ UNCHANGED notCmdVars

\* the user removes a tool: its detect directory is gone
UninstallTool ==
    /\ calls_left > 0
    /\ \A k \in Tasks : concurrent \/ call[k].pc = "idle"
    /\ \E t \in LocalTools :
        /\ installed[t]
        /\ installed' = [installed EXCEPT ![t] = FALSE]
    /\ last_done' = NoDone
    /\ calls_left' = calls_left - 1
    /\ UNCHANGED <<db_skill, db_skill_target, settings, fs_central, fs_target,
                   call, concurrent>>
    /\ UNCHANGED notCmdVars

CmdInit ==
    /\ SkillsIdle
    /\ MapIdle
    /\ ConcIdle
    /\ StoreIdle
    /\ FmtIdle
    /\ LaterIdle
    /\ LastIdle
    /\ settings = [central_repo_path |-> ""]
    /\ fs_central = {}
    /\ \E e \in {NoEntry, Foreign} :
        fs_target = [q \in TargetPaths |-> IF q = <<"t1", "a">> THEN e ELSE NoEntry]
    /\ installed = [t \in LocalTools |-> t = "t1"]
    /\ call = [k \in Tasks |-> NoCall]
    /\ last_done = NoDone
    /\ concurrent \in BOOLEAN
    /\ calls_left = MaxCalls

CmdNext ==
    \/ \E k \in Tasks : SyncToTool(k)
    \/ \E k \in Tasks : SyncUpsert(k)
    \/ \E k \in Tasks : UnsyncFromTool(k)
    \/ \E k \in Tasks : UnsyncDelete(k)
    \/ \E k \in Tasks : DeleteManaged(k)
    \/ \E k \in Tasks : DeleteGetSkill(k)
    \/ \E k \in Tasks : DeleteSkillRecord(k)
    \/ SetCentralRepoPath
    \/ InstallSkill
    \/ UninstallTool

CmdSpec == CmdInit /\ [][CmdNext]_vars

----------------------------------------------------------------------------
(* The errors of the skills commands (skills/commands.rs).  A command       *)
(* returns Result<_, String>; an anyhow::Error becomes that String in       *)
(* format_error or in the map_err closure of skills_sync_to_tool.  An       *)
(* anyhow::Error is its chain of messages, the outermost context first and  *)
(* the root cause last; a message is the sequence of its parts, so that     *)
(* starts_with looks at the first part.                                     *)

MaxDepth == 3

\* the messages a .context() / .with_context() puts in front of an error
Contexts == {<<"install">>, <<"clone">>, <<"update">>}

\* clone_or_pull: no git binary, or the git command failed
GitBails ==
    { [kind |-> "git_not_found", site |-> "format_error",
       msg |-> <<"GIT_NOT_FOUND">>],
      [kind |-> "git_failed", site |-> "format_error",
       msg |-> <<"GIT_COMMAND_FAILED|", "stderr">>] }

\* the installer: the errors whose prefixes format_error looks for, and
\* any other error
InstallerBails ==
    { [kind |-> "multi_skills", site |-> "format_error",
       msg |-> <<"MULTI_SKILLS|", "candidates">>],
      [kind |-> "target_exists", site |-> "format_error",
       msg |-> <<"TARGET_EXISTS|", "p">>],
      [kind |-> "tool_not_installed", site |-> "format_error",
       msg |-> <<"TOOL_NOT_INSTALLED|", "t">>],
      [kind |-> "other", site |-> "format_error", msg |-> <<"io">>] }

\* sync_dir_for_tool_with_overwrite: the target is there, or any other error
SyncEngineBails ==
    { [kind |-> "target_exists", site |-> "map_err",
       msg |-> <<"target already exists", "p">>],
      [kind |-> "other", site |-> "map_err", msg |-> <<"io">>] }

\* what the code below the commands bails with
Bails == GitBails \cup InstallerBails \cup SyncEngineBails

\* err.to_string(): Display of an anyhow::Error is its outermost message
to_string(err) == err[1]

\* format!("{:#}", err): the whole chain, joined with ": "
RECURSIVE alternate(_)
alternate(err) ==
    IF Len(err) = 1 THEN err[1]
    ELSE err[1] \o <<": ">> \o alternate(Tail(err))

starts_with(str, prefix) == Len(str) > 0 /\ str[1] = prefix

contains(str, part) == \E i \in DOMAIN str : str[i] = part

format_error(err) ==
    LET first == to_string(err)
    IN  IF \/ starts_with(first, "MULTI_SKILLS|")
           \/ starts_with(first, "TARGET_EXISTS|")
           \/ starts_with(first, "TOOL_NOT_INSTALLED|")
        THEN first
        ELSE alternate(err)

\* the map_err closure of skills_sync_to_tool, on the error as it arrives
sync_map_err(err, target) ==
    LET msg == to_string(err)
    IN  IF contains(msg, "target already exists")
        THEN <<"TARGET_EXISTS|", target>>
        ELSE format_error(err)

\* anyhow::bail! below a command
Bail ==
    /\ epc \in {"idle", "returned"}
    /\ \E b \in Bails :
        /\ raised' = <<b.msg>>
        /\ err_kind' = b.kind
        /\ site' = b.site
    /\ epc' = "raised"
    /\ reply' = <<>>
    /\ UNCHANGED notFmtVars

\* a caller on the way up adds a context
Context ==
    /\ epc = "raised"
    /\ Len(raised) < MaxDepth
    /\ \E c \in Contexts : raised' = <<c>> \o raised
    /\ UNCHANGED <<err_kind, site, epc, reply>>
    /\ UNCHANGED notFmtVars

\* .map_err(format_error)?
FormatError ==
    /\ epc = "raised"
    /\ site = "format_error"
    /\ reply' = format_error(raised)
    /\ epc' = "returned"
    /\ UNCHANGED <<raised, err_kind, site>>
    /\ UNCHANGED notFmtVars

\* skills_sync_to_tool: sync_dir_for_tool_with_overwrite(..).map_err(..)?
SyncMapErr ==
    /\ epc = "raised"
    /\ site = "map_err"
    /\ reply' = sync_map_err(raised, "p")
    /\ epc' = "returned"
    /\ UNCHANGED <<raised, err_kind, site>>
    /\ UNCHANGED notFmtVars

\* skills_sync_to_tool: return Err(format!("TOOL_NOT_INSTALLED|{}", key))
ToolNotInstalled ==
    /\ epc \in {"idle", "returned"}
    /\ raised' = <<>>
    /\ err_kind' = "tool_not_installed"
    /\ site' = "direct"
    /\ reply' = <<"TOOL_NOT_INSTALLED|", "t">>
    /\ epc' = "returned"
    /\ UNCHANGED notFmtVars

FmtInit ==
    /\ SkillsIdle
    /\ MapIdle
    /\ ConcIdle
    /\ StoreIdle
    /\ CmdIdle
    /\ FmtIdle
    /\ LaterIdle
    /\ LastIdle

FmtNext ==
    \/ Bail
    \/ Context
    \/ FormatError
    \/ SyncMapErr
    \/ ToolNotInstalled

FmtSpec == FmtInit /\ [][FmtNext]_vars

----------------------------------------------------------------------------
(* clone_or_pull (skills/git_fetcher.rs).  Every git command goes through   *)
(* run_cmd_with_timeout; what it does is an outcome the environment         *)
(* chooses: exit status 0, a non-zero exit status, or an Err (the command   *)
(* could not be spawned, or it was killed at the timeout).                  *)

MaxGitCalls == 2

CmdOutcomes == {"ok", "nonzero", "timeout", "io"}

NoGitRet == [status |-> "none", value |-> <<>>]

GitOk(rev) == [status |-> "Ok", value |-> <<rev>>]

\* clone_or_pull wraps every error of clone_or_pull_via_git_cli
GitErr(e) ==
    [status |-> "Err",
     value |-> IF e = "GIT_NOT_FOUND" THEN <<e>> ELSE <<"GIT_COMMAND_FAILED|", e>>]

\* the message of a command that did not come back with exit status 0
GitFailure(out, failed) == IF out = "nonzero" THEN failed ELSE
                           IF out = "timeout" THEN "GIT_TIMEOUT|" ELSE "io"

\* the call has run step s with outcome out
Ran(s, out) == Append(git.steps, [step |-> s, out |-> out])

\* the call ends with an error after the steps st
GitFail(st, e) ==
    git' = [git EXCEPT !.pc = "done", !.steps = st, !.ret = GitErr(e)]

\* a call of clone_or_pull(repo_url, dest, branch)
GitCall ==
    /\ git.pc \in {"idle", "done"}
    /\ git.calls < MaxGitCalls
    /\ \E b \in BOOLEAN :
        git' = [git EXCEPT !.pc = "resolve_git_bin", !.calls = @ + 1,
                           !.branch = b, !.steps = <<>>, !.ret = NoGitRet]
    /\ UNCHANGED notGitVars

\* resolve_git_bin: the answer is cached for the life of the process
GitResolveBin ==
    /\ git.pc = "resolve_git_bin"
    /\ IF git.bin
       THEN git' = [git EXCEPT !.pc = "create_dir_all", !.steps = Ran("git_bin", "ok")]
       ELSE GitFail(Ran("git_bin", "none"), "GIT_NOT_FOUND")
    /\ UNCHANGED notGitVars

\* std::fs::create_dir_all(parent), then dest.exists()
GitCreateParent ==
    /\ git.pc = "create_dir_all"
    /\ \E out \in {"ok", "io"} :
        IF out = "ok"
        THEN git' = [git EXCEPT !.pc = IF git.dest THEN "fetch" ELSE "clone",
                                !.existed = git.dest,
                                !.steps = Ran("create_dir_all", out)]
        ELSE GitFail(Ran("create_dir_all", out), "io")
    /\ UNCHANGED notGitVars

\* faulty variant: a fetch that failed is followed by the reset
GitFetchGoesOn ==
    /\ git.pc = "fetch"
    /\ \E out \in CmdOutcomes :
        git' = [git EXCEPT !.pc = "reset", !.steps = Ran("fetch", out)]
    /\ UNCHANGED notGitVars

\* git -C dest fetch --prune origin; in what a killed clone left behind
\* git has no repository to fetch into and exits with an error
GitFetch ==
    /\ git.pc = "fetch"
    /\ \E out \in CmdOutcomes :
        /\ git.partial => out # "ok"
        /\ IF out = "ok"
           THEN git' = [git EXCEPT !.pc = "reset", !.steps = Ran("fetch", out)]
           ELSE GitFail(Ran("fetch", out), GitFailure(out, "GIT_FETCH_FAILED|"))
    /\ UNCHANGED notGitVars

\* git checkout -B branch origin/branch, or git reset --hard FETCH_HEAD
GitReset ==
    /\ git.pc = "reset"
    /\ LET s == IF git.branch THEN "checkout -B" ELSE "reset --hard" IN
       \E out \in CmdOutcomes :
        IF out = "ok"
        THEN git' = [git EXCEPT !.pc = IF git.branch THEN "checkout" ELSE "rev-parse",
                                !.steps = Ran(s, out)]
        ELSE GitFail(Ran(s, out),
                     GitFailure(out, IF git.branch THEN "GIT_CHECKOUT_FAILED|"
                                     ELSE "GIT_RESET_FAILED|"))
    /\ UNCHANGED notGitVars

\* git clone --depth 1 ... repo_url dest.  A clone that fails by itself
\* removes what it created; a clone killed at the timeout (child.kill() is
\* SIGKILL) cannot, and the function removes nothing: the destination can be
\* left behind, as a repository git can go on with or as an unfinished one.
GitClone ==
    /\ git.pc = "clone"
    /\ \E out \in CmdOutcomes :
        IF out = "ok"
        THEN git' = [git EXCEPT !.pc = IF git.branch THEN "checkout" ELSE "rev-parse",
                                !.dest = TRUE, !.steps = Ran("clone", out)]
        ELSE \E left \in (IF out = "timeout" THEN BOOLEAN ELSE {FALSE}),
                unfinished \in BOOLEAN :
                /\ unfinished => left
                /\ git' = [git EXCEPT !.pc = "done", !.dest = left,
                                   !.partial = unfinished,
                                   !.clone_failed = TRUE,
                                   !.steps = Ran("clone", out),
                                   !.ret = GitErr(GitFailure(out, "GIT_CLONE_FAILED|"))]
    /\ UNCHANGED notGitVars

\* git checkout branch, when a branch was asked for: a non-zero exit status
\* is logged as a warning and the call goes on
GitCheckout ==
    /\ git.pc = "checkout"
    /\ \E out \in CmdOutcomes :
        IF out \in {"ok", "nonzero"}
        THEN git' = [git EXCEPT !.pc = "rev-parse", !.steps = Ran("checkout", out)]
        ELSE GitFail(Ran("checkout", out), GitFailure(out, "-"))
    /\ UNCHANGED notGitVars

\* git rev-parse HEAD
GitRevParse ==
    /\ git.pc = "rev-parse"
    /\ \E out \in CmdOutcomes :
        IF out = "ok"
        THEN git' = [git EXCEPT !.pc = "done", !.steps = Ran("rev-parse", out),
                                !.ret = GitOk("head")]
        ELSE GitFail(Ran("rev-parse", out), GitFailure(out, "GIT_REVPARSE_FAILED|"))
    /\ UNCHANGED notGitVars

EarlierIdle ==
    /\ SkillsIdle
    /\ MapIdle
    /\ ConcIdle
    /\ StoreIdle
    /\ CmdIdle
    /\ FmtIdle

GitInit ==
    /\ EarlierIdle
    /\ LastIdle
    /\ WatchIdle /\ CacheIdle /\ SettingsIdle /\ McpIdle /\ PathIdle /\ LockIdle
    /\ \E bin, dest \in BOOLEAN :
        git = [pc |-> "idle", calls |-> 0, bin |-> bin, dest |-> dest,
               branch |-> FALSE, existed |-> FALSE, partial |-> FALSE,
               clone_failed |-> FALSE, steps |-> <<>>, ret |-> NoGitRet]

GitNext ==
    \/ GitCall
    \/ GitResolveBin
    \/ GitCreateParent
    \/ GitFetch
    \/ GitReset
    \/ GitClone
    \/ GitCheckout
    \/ GitRevParse

GitSpec == GitInit /\ [][GitNext]_vars

----------------------------------------------------------------------------
(* run_cmd_with_timeout (skills/git_fetcher.rs).  Time is counted in units  *)
(* of the polling interval (200 ms); it passes while the loop sleeps and    *)
(* can pass between any two steps.  The child exits when it likes, or not   *)
(* at all.                                                                  *)

MaxClock == 5

\* timeout: Duration, in polling intervals
git_timeout == 2

NoWatchRet == [kind |-> "none", limit |-> 0]

\* a moment passes
Tick ==
    /\ watch.pc \notin {"idle", "spawn", "done"}
    /\ watch.clock < MaxClock
    /\ watch' = [watch EXCEPT !.clock = @ + 1]
    /\ UNCHANGED notWatchVars

\* the child process exits by itself
ChildExit ==
    /\ watch.child = "running"
    /\ watch' = [watch EXCEPT !.child = "exited", !.exit_at = watch.clock]
    /\ UNCHANGED notWatchVars

\* cmd.spawn().with_context(..)?; let start = Instant::now()
WatchSpawn ==
    /\ watch.pc = "spawn"
    /\ \/ watch' = [watch EXCEPT !.pc = "check", !.child = "running", !.clock = 0]
       \/ watch' = [watch EXCEPT !.pc = "done", !.ret = [kind |-> "io", limit |-> 0]]
    /\ UNCHANGED notWatchVars

\* faulty variant: the watchdog never fires
WatchCheckNever ==
    /\ watch.pc = "check"
    /\ watch' = [watch EXCEPT !.pc = "try_wait", !.checked_at = watch.clock]
    /\ UNCHANGED notWatchVars

\* if start.elapsed() > timeout { child.kill(); child.wait_with_output();
\* bail!("GIT_TIMEOUT|{}|{}", timeout.as_secs(), stderr) }
WatchCheck ==
    /\ watch.pc = "check"
    /\ IF watch.clock > git_timeout
       THEN watch' = [watch EXCEPT
                !.pc = "done",
                !.checked_at = watch.clock,
                !.killed = (watch.child = "running"),
                !.child = "reaped",
                !.ret = [kind |-> "GIT_TIMEOUT|", limit |-> git_timeout]]
       ELSE watch' = [watch EXCEPT !.pc = "try_wait", !.checked_at = watch.clock]
    /\ UNCHANGED notWatchVars

\* match child.try_wait()
WatchTryWait ==
    /\ watch.pc = "try_wait"
    /\ \/ /\ watch.child = "exited"
          /\ watch' = [watch EXCEPT !.pc = "done", !.child = "reaped",
                                    !.ret = [kind |-> "output", limit |-> 0]]
       \/ /\ watch.child = "running"
          /\ watch' = [watch EXCEPT !.pc = "sleep"]
       \/ watch' = [watch EXCEPT !.pc = "done", !.ret = [kind |-> "io", limit |-> 0]]
    /\ UNCHANGED notWatchVars

\* std::thread::sleep(Duration::from_millis(200))
WatchSleep ==
    /\ watch.pc = "sleep"
    /\ watch' = [watch EXCEPT !.pc = "check",
                              !.clock = IF @ < MaxClock THEN @ + 1 ELSE @]
    /\ UNCHANGED notWatchVars

\* the steps of the function itself
WatchStep == WatchSpawn \/ WatchCheck \/ WatchTryWait \/ WatchSleep

WatchInit ==
    /\ EarlierIdle
    /\ LastIdle
    /\ GitIdle /\ CacheIdle /\ SettingsIdle /\ McpIdle /\ PathIdle /\ LockIdle
    /\ watch = [pc |-> "spawn", clock |-> 0, child |-> "none", exit_at |-> 0,
                checked_at |-> 0, killed |-> FALSE, ret |-> NoWatchRet]

WatchNext ==
    \/ Tick
    \/ ChildExit
    \/ WatchSpawn
    \/ WatchCheck
    \/ WatchTryWait
    \/ WatchSleep

\* the thread that runs the function is scheduled; nothing is assumed of
\* the child or of the clock
WatchSpec == WatchInit /\ [][WatchNext]_vars /\ WF_vars(WatchStep)

----------------------------------------------------------------------------
(* cleanup_git_cache_dirs_in (skills/cache_cleanup.rs).  Times are small    *)
(* integers on one scale (the marker's milliseconds and the file system's   *)
(* modification times alike).                                               *)

MaxTime == 2

Clones == {"c1", "c2"}

Times == 1..MaxTime

\* .skills-cache.json: missing, not a RepoCacheMeta, or { last_fetched_ms }
Markers ==
    {[kind |-> "none", last_fetched_ms |-> 0], [kind |-> "bad", last_fetched_ms |-> 0]}
    \cup {[kind |-> "meta", last_fetched_ms |-> t] : t \in 0..MaxTime}

NoClone ==
    [exists |-> FALSE, git |-> FALSE, marker |-> [kind |-> "none", last_fetched_ms |-> 0],
     modified |-> 1, removable |-> TRUE]

\* a directory under the cache root
CloneDirs ==
    {NoClone} \cup
    [exists : {TRUE}, git : BOOLEAN, marker : Markers, modified : Times,
     removable : BOOLEAN]

\* faulty variant: a clone is stale by its marker alone
should_remove_by_marker_only(entry, cutoff_ms, cutoff_time) ==
    /\ entry.marker.kind = "meta"
    /\ entry.marker.last_fetched_ms > 0
    /\ entry.marker.last_fetched_ms <= cutoff_ms

\* lines 133-152: the marker first, then the modification time whenever the
\* marker has not made the clone stale
should_remove(entry, cutoff_ms, cutoff_time) ==
    LET by_marker ==
            /\ entry.marker.kind = "meta"
            /\ entry.marker.last_fetched_ms > 0
            /\ entry.marker.last_fetched_ms <= cutoff_ms
    IN  IF by_marker THEN TRUE ELSE entry.modified <= cutoff_time

\* cache_root.exists(), the cutoffs, read_dir
CleanupStart ==
    /\ cache.pc = "start"
    /\ IF ~cache.root
       THEN cache' = [cache EXCEPT !.pc = "done", !.ret = [status |-> "Ok", n |-> 0]]
       ELSE \E ok \in BOOLEAN :
            IF ok
            THEN cache' = [cache EXCEPT
                    !.pc = "loop",
                    !.cutoff = cache.now - cache.max_age,
                    !.queue = IF cache.dirs["c1"].exists
                              THEN (IF cache.dirs["c2"].exists THEN <<"c1", "c2">>
                                    ELSE <<"c1">>)
                              ELSE (IF cache.dirs["c2"].exists THEN <<"c2">>
                                    ELSE <<>>)]
            ELSE cache' = [cache EXCEPT !.pc = "done",
                                        !.ret = [status |-> "Err", n |-> 0]]
    /\ UNCHANGED notCacheVars

\* one turn of the loop over the entries of the cache root
CleanupEntry ==
    /\ cache.pc = "loop"
    /\ cache.queue # <<>>
    /\ LET c == Head(cache.queue)
           entry == cache.dirs[c]
           stale == should_remove(entry, cache.cutoff, cache.cutoff)
       IN  IF ~entry.git
           THEN cache' = [cache EXCEPT !.queue = Tail(@), !.decided[c] = "skip"]
           ELSE IF stale /\ entry.removable
           THEN cache' = [cache EXCEPT !.queue = Tail(@), !.decided[c] = "remove",
                                       !.dirs[c] = NoClone, !.removed = @ + 1]
           ELSE cache' = [cache EXCEPT
                            !.queue = Tail(@),
                            !.decided[c] = IF stale THEN "remove" ELSE "keep"]
    /\ UNCHANGED notCacheVars

\* Ok(removed)
CleanupReturn ==
    /\ cache.pc = "loop"
    /\ cache.queue = <<>>
    /\ cache' = [cache EXCEPT !.pc = "done",
                              !.ret = [status |-> "Ok", n |-> cache.removed]]
    /\ UNCHANGED notCacheVars

CleanupInit ==
    /\ EarlierIdle
    /\ LastIdle
    /\ GitIdle /\ WatchIdle /\ SettingsIdle /\ McpIdle /\ PathIdle /\ LockIdle
    /\ \E root \in BOOLEAN, now \in Times, max_age \in 0..MaxTime,
          dirs \in [Clones -> CloneDirs] :
        /\ root \/ dirs = [c \in Clones |-> NoClone]
        /\ cache = [pc |-> "start", root |-> root, now |-> now,
                    max_age |-> max_age, dirs |-> dirs, before |-> dirs,
                    cutoff |-> 0, queue |-> <<>>,
                    decided |-> [c \in Clones |-> "none"], removed |-> 0,
                    ret |-> [status |-> "none", n |-> 0]]

CleanupNext ==
    \/ CleanupStart
    \/ CleanupEntry
    \/ CleanupReturn

CleanupSpec == CleanupInit /\ [][CleanupNext]_vars

----------------------------------------------------------------------------
(* The settings record skill_settings:`skills` (skills/skill_store.rs,      *)
(* skills/cache_cleanup.rs).  Every function holds the database mutex from  *)
(* its query to its return.  A field of the record is a JSON value.         *)

MaxWrites == 3

DEFAULT_GIT_CACHE_CLEANUP_DAYS == 30

MAX_GIT_CACHE_CLEANUP_DAYS == 3650

\* the setting names that set_setting / get_setting are called with
SettingKeys == {"central_repo_path", "installed_tools_v1", "preferred_tools_v1"}

Fields == SettingKeys \cup {"git_cache_cleanup_days", "updated_at"}

SettingValues == {"", "x", "y"}

\* the days that skills_set_git_cache_cleanup_days is tried with
DayInputs == {0 - 1, 0, 7, MAX_GIT_CACHE_CLEANUP_DAYS, MAX_GIT_CACHE_CLEANUP_DAYS + 1}

\* serde_json::Value
Null == [t |-> "null", s |-> "", n |-> 0]

Str(s) == [t |-> "string", s |-> s, n |-> 0]

Num(n) == [t |-> "number", s |-> "", n |-> n]

NoRecord == [f \in Fields |-> Null]

NoSettingsCall ==
    [op |-> "none", key |-> "-", value |-> Null, ret |-> Null,
     got |-> [some |-> FALSE, s |-> ""], ok |-> TRUE]

\* faulty variant: the write replaces the record
replace_record(record, key, value, now) ==
    [f \in Fields |-> IF f = key THEN value ELSE IF f = "updated_at" THEN Num(now) ELSE Null]

\* UPSERT skill_settings:`skills` MERGE { key: $value, updated_at: $now }
merge(record, key, value, now) ==
    [record EXCEPT ![key] = value, !["updated_at"] = Num(now)]

\* Option<String>
None == [some |-> FALSE, s |-> ""]

Some(s) == [some |-> TRUE, s |-> s]

\* get_setting: the string itself, any other value that is not null as its
\* JSON text, None for a missing or null field
get_setting(record, key) ==
    LET value == record[key]
    IN  IF value.t = "string" THEN Some(value.s)
        ELSE IF value.t # "null" THEN Some(ToString(value.n))
        ELSE None

\* faulty variant: negative days pass
days_not_above_max(days) == days <= MAX_GIT_CACHE_CLEANUP_DAYS

\* (0..=MAX_GIT_CACHE_CLEANUP_DAYS).contains(&days)
days_in_range(days) == 0 <= days /\ days <= MAX_GIT_CACHE_CLEANUP_DAYS

\* get_git_cache_cleanup_days: the field as i64, else the default
get_git_cache_cleanup_days(record) ==
    IF record["git_cache_cleanup_days"].t = "number"
    THEN record["git_cache_cleanup_days"].n
    ELSE DEFAULT_GIT_CACHE_CLEANUP_DAYS

\* what a call leaves behind for the next: itself as the last call
Called(c) ==
    [skill_settings EXCEPT !.last = c, !.before = skill_settings.last,
                           !.prev = skill_settings.record]

SetSetting ==
    /\ skill_settings.now < MaxWrites
    /\ \E key \in SettingKeys, value \in SettingValues :
        skill_settings' =
            [Called([op |-> "set_setting", key |-> key, value |-> Str(value),
                     ret |-> Null, got |-> None, ok |-> TRUE])
             EXCEPT !.record = merge(skill_settings.record, key, Str(value),
                                     skill_settings.now + 1),
                    !.now = @ + 1]
    /\ UNCHANGED notSettingsVars

GetSetting ==
    /\ skill_settings.last.op # "get_setting"
    /\ \E key \in SettingKeys :
        skill_settings' =
            Called([op |-> "get_setting", key |-> key, value |-> Null,
                    ret |-> Null, got |-> get_setting(skill_settings.record, key),
                    ok |-> TRUE])
    /\ UNCHANGED notSettingsVars

SetGitCacheCleanupDays ==
    /\ skill_settings.now < MaxWrites
    /\ \E days \in DayInputs :
        IF days_in_range(days)
        THEN skill_settings' =
                [Called([op |-> "set_days", key |-> "git_cache_cleanup_days",
                         value |-> Num(days), ret |-> Num(days), got |-> None,
                         ok |-> TRUE])
                 EXCEPT !.record = merge(skill_settings.record,
                                         "git_cache_cleanup_days", Num(days),
                                         skill_settings.now + 1),
                        !.now = @ + 1,
                        !.accepted = Num(days)]
        ELSE skill_settings' =
                Called([op |-> "set_days", key |-> "git_cache_cleanup_days",
                        value |-> Num(days), ret |-> Null, got |-> None,
                        ok |-> FALSE])
    /\ UNCHANGED notSettingsVars

GetGitCacheCleanupDays ==
    /\ skill_settings.last.op # "get_days"
    /\ skill_settings' =
            Called([op |-> "get_days", key |-> "git_cache_cleanup_days",
                    value |-> Null,
                    ret |-> Num(get_git_cache_cleanup_days(skill_settings.record)),
                    got |-> None, ok |-> TRUE])
    /\ UNCHANGED notSettingsVars

SettingsInit ==
    /\ EarlierIdle
    /\ LastIdle
    /\ GitIdle /\ WatchIdle /\ CacheIdle /\ McpIdle /\ PathIdle /\ LockIdle
    /\ skill_settings = [record |-> NoRecord, prev |-> NoRecord, now |-> 0,
                         last |-> NoSettingsCall, before |-> NoSettingsCall,
                         accepted |-> Null]

SettingsNext ==
    \/ SetSetting
    \/ GetSetting
    \/ SetGitCacheCleanupDays
    \/ GetGitCacheCleanupDays

SettingsSpec == SettingsInit /\ [][SettingsNext]_vars


----------------------------------------------------------------------------
(* Remote sync of the MCP configuration files (coding/ssh/commands.rs,
   coding/ssh/mcp_sync.rs).  A file is modelled by what matters here:
   whether a server in it is started through the Windows wrapper
   ("cmd", i.e. command "cmd" with args "/c ..."), holds only direct
   commands ("plain"), or does not exist.  A remote operation can fail
   (ssh exits non-zero); at most MaxMcpFaults of them do. *)

MaxMcpFaults == 1

MaxMcpRuns == 2

ClaudeJson == "~/.claude.json"

\* id, module and file of the enabled mappings of the table
file_mappings ==
    << [id |-> "opencode-main", module |-> "opencode",
        remote_path |-> "~/.config/opencode/opencode.jsonc"],
       [id |-> "opencode-auth", module |-> "opencode",
        remote_path |-> "~/.local/share/opencode/auth.json"],
       [id |-> "claude-settings", module |-> "claude",
        remote_path |-> "~/.claude/settings.json"],
       [id |-> "codex-config", module |-> "codex",
        remote_path |-> "~/.codex/config.toml"] >>

MappingIdx == 1..Len(file_mappings)

LocalContents == {"cmd", "plain", "missing"}

RemoteContents == {"cmd", "plain", "absent"}

RemoteFiles == {ClaudeJson} \cup {file_mappings[i].remote_path : i \in MappingIdx}

is_mcp_config_file(mapping_id) ==
    mapping_id \in {"opencode-main", "opencode-oh-my", "codex-config"}

\* the files of the remote that hold MCP servers
McpConfigFiles ==
    {ClaudeJson} \cup
    {file_mappings[i].remote_path :
        i \in {j \in MappingIdx : is_mcp_config_file(file_mappings[j].id)}}

\* command_normalize: "cmd /c <command> <args>" becomes "<command> <args>"
unwrap_cmd_c(content) == IF content = "cmd" THEN "plain" ELSE content

\* the mappings of the second pass: enabled, of module opencode or codex
mcp_mappings ==
    {i \in MappingIdx : file_mappings[i].module \in {"opencode", "codex"}}

RECURSIVE NextIn(_, _)
\* the next index after i that is in S, or Len + 1
NextIn(S, i) ==
    IF i > Len(file_mappings) \/ i \in S THEN i ELSE NextIn(S, i + 1)

McpFault(ok) == IF ok THEN mcp.faults ELSE mcp.faults + 1

McpMayFail(ok) == ok \/ mcp.faults < MaxMcpFaults

\* sync_single_file: a missing local file is skipped, else the file is copied
\* as it is
Copied(i, ok) ==
    IF mcp.local[file_mappings[i].remote_path] = "missing" \/ ~ok
    THEN mcp.remote
    ELSE [mcp.remote EXCEPT ![file_mappings[i].remote_path] =
              mcp.local[file_mappings[i].remote_path]]

\* ssh_sync / ssh_save_config: do_full_sync starts with the file mappings
DoFullSync ==
    /\ mcp.pc = "ready"
    /\ mcp.runs < MaxMcpRuns
    /\ mcp' = [mcp EXCEPT !.pc = "files", !.i = 1, !.runs = @ + 1,
                          !.synced = {}]
    /\ UNCHANGED notMcpVars

\* the mcp-changed event calls sync_mcp_to_ssh alone
SyncMcpToSsh ==
    /\ mcp.pc = "ready"
    /\ mcp.runs < MaxMcpRuns
    /\ mcp' = [mcp EXCEPT !.pc = "claude", !.runs = @ + 1, !.synced = {}]
    /\ UNCHANGED notMcpVars

\* sync_mappings_with_progress: one mapping of the first pass
SyncFileMapping ==
    /\ mcp.pc = "files"
    /\ \E ok \in BOOLEAN :
        /\ McpMayFail(ok)
        /\ ok \/ mcp.local[file_mappings[mcp.i].remote_path] # "missing"
        /\ mcp' = [mcp EXCEPT
                !.remote = Copied(mcp.i, ok),
                !.faults = McpFault(ok),
                !.i = @ + 1,
                !.pc = IF mcp.i = Len(file_mappings) THEN "claude" ELSE "files"]
    /\ UNCHANGED notMcpVars

\* sync_mcp_to_ssh_claude: mcpServers of the remote ~/.claude.json is rebuilt
\* from the servers of the database; a failure is only logged
SyncMcpToSshClaude ==
    /\ mcp.pc = "claude"
    /\ \E ok \in BOOLEAN :
        /\ McpMayFail(ok)
        /\ mcp' = [mcp EXCEPT
                !.remote = IF ok
                           THEN [@ EXCEPT ![ClaudeJson] = unwrap_cmd_c(mcp.servers)]
                           ELSE @,
                !.faults = McpFault(ok),
                !.i = NextIn(mcp_mappings, 1),
                !.pc = "mcp_files"]
    /\ UNCHANGED notMcpVars

\* sync_mappings(&resolved, &conn, None): one mapping of the second pass
SyncMcpMapping ==
    /\ mcp.pc = "mcp_files"
    /\ \E ok \in BOOLEAN :
        /\ McpMayFail(ok)
        /\ ok \/ mcp.local[file_mappings[mcp.i].remote_path] # "missing"
        /\ LET i == mcp.i
               done == ok /\ mcp.local[file_mappings[i].remote_path] # "missing"
               n == NextIn(mcp_mappings, i + 1)
           IN  mcp' = [mcp EXCEPT
                !.remote = Copied(i, ok),
                !.faults = McpFault(ok),
                !.synced = IF done THEN @ \cup {file_mappings[i].remote_path} ELSE @,
                !.i = IF n > Len(file_mappings) THEN NextIn(mcp_mappings, 1) ELSE n,
                !.pc = IF n > Len(file_mappings) THEN "strip" ELSE "mcp_files"]
    /\ UNCHANGED notMcpVars

\* strip_cmd_c_from_remote_mcp_file for one mapping of the second pass: only
\* for the MCP files that were synced; a failure is only logged
StripCmdC ==
    /\ mcp.pc = "strip"
    /\ \E ok \in BOOLEAN :
        /\ McpMayFail(ok)
        /\ LET i == mcp.i
               path == file_mappings[i].remote_path
               applies == /\ is_mcp_config_file(file_mappings[i].id)
                          /\ path \in mcp.synced
               n == NextIn(mcp_mappings, i + 1)
           IN  /\ ok \/ applies
               /\ mcp' = [mcp EXCEPT
                    !.remote = IF applies /\ ok
                               THEN [@ EXCEPT ![path] = unwrap_cmd_c(@)]
                               ELSE @,
                    !.faults = McpFault(ok),
                    !.i = n,
                    !.pc = IF n > Len(file_mappings) THEN "done" ELSE "strip"]
    /\ UNCHANGED notMcpVars

\* the run has returned; the next one can start
McpReturn ==
    /\ mcp.pc = "done"
    /\ mcp' = [mcp EXCEPT !.pc = "ready"]
    /\ UNCHANGED notMcpVars

McpInit ==
    /\ EarlierIdle
    /\ LastIdle
    /\ GitIdle /\ WatchIdle /\ CacheIdle /\ SettingsIdle /\ PathIdle /\ LockIdle
    /\ \E local \in [RemoteFiles \ {ClaudeJson} -> LocalContents],
          servers \in {"cmd", "plain"} :
        mcp = [pc |-> "ready", local |-> local, servers |-> servers,
               remote |-> [f \in RemoteFiles |-> "absent"],
               synced |-> {}, i |-> 1, faults |-> 0, runs |-> 0]

McpNext ==
    \/ DoFullSync
    \/ SyncMcpToSsh
    \/ SyncFileMapping
    \/ SyncMcpToSshClaude
    \/ SyncMcpMapping
    \/ StripCmdC
    \/ McpReturn

McpSpec == McpInit /\ [][McpNext]_vars


----------------------------------------------------------------------------
(* Path normalization of custom tools (coding/tools/path_utils.rs), as built
   for a platform whose MAIN_SEPARATOR is "/".  A string is a sequence of
   characters; "%APPDATA%" and "%appdata%" stand for the nine characters of
   the token in upper and in lower case. *)

MaxPathLen == 3

PathChars == {"/", "\\", "~", "%APPDATA%", "%appdata%", "u", "x", ":", " "}

MAIN_SEPARATOR == "/"

RECURSIVE StringsUpTo(_)
StringsUpTo(n) ==
    IF n = 0 THEN {<<>>}
    ELSE LET shorter == StringsUpTo(n - 1)
         IN  shorter \cup {Append(s, c) : s \in shorter, c \in PathChars}

NoDir == [some |-> FALSE, path |-> <<>>]

SomePath(p) == [some |-> TRUE, path |-> p]

\* dirs::home_dir()
HomeDirs == {NoDir, SomePath(<<"/", "u">>)}

\* dirs::config_dir(): under the home directory, or where XDG_CONFIG_HOME says
ConfigDirs == {NoDir, SomePath(<<"/", "u", "/", "x">>), SomePath(<<"/", "x">>)}

\* str::replace for a one-character pattern
replace(s, from, to) == [i \in DOMAIN s |-> IF s[i] = from THEN to ELSE s[i]]

RECURSIVE trim_start_matches(_, _)
trim_start_matches(s, c) ==
    IF s # <<>> /\ Head(s) = c THEN trim_start_matches(Tail(s), c) ELSE s

RECURSIVE trim_end(_)
trim_end(s) ==
    IF s # <<>> /\ s[Len(s)] = " " THEN trim_end(SubSeq(s, 1, Len(s) - 1)) ELSE s

trim(s) == trim_end(trim_start_matches(s, " "))

to_uppercase(s) ==
    [i \in DOMAIN s |->
        CASE s[i] = "%appdata%" -> "%APPDATA%"
          [] s[i] = "u" -> "U"
          [] s[i] = "x" -> "X"
          [] OTHER -> s[i]]

\* str::starts_with for a string pattern
starts_with_str(s, prefix) ==
    Len(s) >= Len(prefix) /\ SubSeq(s, 1, Len(prefix)) = prefix

\* &s[n..]
from(s, n) == SubSeq(s, n + 1, Len(s))

normalize_path(input0, home_dir, config_dir) ==
    LET input == trim(input0)
        normalized_input == replace(input, "\\", "/")
        upper_input == to_uppercase(normalized_input)
        home_str == replace(home_dir.path, "\\", "/")
        config_str == replace(config_dir.path, "\\", "/")
    IN  IF starts_with_str(normalized_input, <<"~", "/">>)
        THEN [path |-> from(normalized_input, 2), path_type |-> "HomeRelative"]
        ELSE IF normalized_input = <<"~">>
        THEN [path |-> <<>>, path_type |-> "HomeRelative"]
        ELSE IF starts_with_str(upper_input, <<"%APPDATA%", "/">>)
        THEN [path |-> from(normalized_input, 2), path_type |-> "AppDataRelative"]
        ELSE IF starts_with_str(upper_input, <<"%APPDATA%", "\\">>)
        THEN [path |-> replace(from(input, 2), "\\", "/"),
              path_type |-> "AppDataRelative"]
        ELSE IF upper_input = <<"%APPDATA%">>
        THEN [path |-> <<>>, path_type |-> "AppDataRelative"]
        ELSE IF home_dir.some /\ starts_with_str(normalized_input, home_str)
        THEN [path |-> trim_start_matches(from(normalized_input, Len(home_str)), "/"),
              path_type |-> "HomeRelative"]
        ELSE IF config_dir.some /\ starts_with_str(normalized_input, config_str)
        THEN [path |-> trim_start_matches(from(normalized_input, Len(config_str)), "/"),
              path_type |-> "AppDataRelative"]
        ELSE [path |-> normalized_input, path_type |-> "Absolute"]

to_storage_path(normalized) ==
    CASE normalized.path_type = "HomeRelative" ->
            IF normalized.path = <<>> THEN <<"~">>
            ELSE <<"~", "/">> \o normalized.path
      [] normalized.path_type = "AppDataRelative" ->
            IF normalized.path = <<>> THEN <<"%APPDATA%">>
            ELSE <<"%APPDATA%", "/">> \o normalized.path
      [] OTHER -> normalized.path

to_platform_path(p) ==
    IF MAIN_SEPARATOR = "/" THEN p ELSE replace(p, "/", MAIN_SEPARATOR)

\* PathBuf::join where "/" separates: an absolute path replaces the base
join(base, path) ==
    IF path # <<>> /\ Head(path) = "/" THEN path
    ELSE IF base # <<>> /\ base[Len(base)] = "/" THEN base \o path
    ELSE base \o <<"/">> \o path

\* Option::map(|h| h.join(relative))
map_join(dir, relative) ==
    IF dir.some THEN SomePath(join(dir.path, relative)) ELSE NoDir

resolve_storage_path(storage_path, home_dir, config_dir) ==
    LET path == trim(storage_path)
        normalized == replace(path, "\\", "/")
        upper_path == to_uppercase(normalized)
    IN  IF starts_with_str(normalized, <<"~", "/">>)
        THEN map_join(home_dir, to_platform_path(from(normalized, 2)))
        ELSE IF normalized = <<"~">>
        THEN home_dir
        ELSE IF starts_with_str(upper_path, <<"%APPDATA%", "/">>)
        THEN map_join(config_dir, to_platform_path(from(normalized, 2)))
        ELSE IF upper_path = <<"%APPDATA%">>
        THEN config_dir
        ELSE IF starts_with(normalized, "/") \/ contains(normalized, ":")
        THEN SomePath(path)
        ELSE map_join(home_dir, to_platform_path(path))

RECURSIVE split(_, _)
\* the names between the separators, empty ones left out
split(s, name) ==
    IF s = <<>> THEN IF name = <<>> THEN <<>> ELSE <<name>>
    ELSE IF Head(s) = "/"
    THEN (IF name = <<>> THEN <<>> ELSE <<name>>) \o split(Tail(s), <<>>)
    ELSE split(Tail(s), Append(name, Head(s)))

\* Path::components, by which two PathBuf are compared
components(p) == [root |-> starts_with(p, "/"), names |-> split(p, <<>>)]

NormalizePath ==
    /\ paths.pc = "input"
    /\ paths' = [paths EXCEPT !.pc = "normalized",
            !.normalized = normalize_path(paths.input, paths.home_dir,
                                          paths.config_dir)]
    /\ UNCHANGED notPathVars

ToStoragePath ==
    /\ paths.pc = "normalized"
    /\ paths' = [paths EXCEPT !.pc = "stored",
                              !.storage = to_storage_path(paths.normalized)]
    /\ UNCHANGED notPathVars

\* the stored path of a tool is resolved
ResolveStoragePath ==
    /\ paths.pc = "stored"
    /\ paths' = [paths EXCEPT !.pc = "resolved", !.arg = paths.storage,
            !.via = "normalized",
            !.resolved = resolve_storage_path(paths.storage, paths.home_dir,
                                              paths.config_dir)]
    /\ UNCHANGED notPathVars

\* a path that was never normalized (a built-in tool's) is resolved
ResolveInput ==
    /\ paths.pc = "input"
    /\ paths' = [paths EXCEPT !.pc = "resolved", !.arg = paths.input,
            !.via = "input",
            !.resolved = resolve_storage_path(paths.input, paths.home_dir,
                                              paths.config_dir)]
    /\ UNCHANGED notPathVars

PathInit ==
    /\ EarlierIdle
    /\ LastIdle
    /\ GitIdle /\ WatchIdle /\ CacheIdle /\ SettingsIdle /\ McpIdle /\ LockIdle
    /\ \E input \in StringsUpTo(MaxPathLen), home_dir \in HomeDirs,
          config_dir \in ConfigDirs :
        paths = [pc |-> "input", input |-> input, home_dir |-> home_dir,
                 config_dir |-> config_dir,
                 normalized |-> [path |-> <<>>, path_type |-> "Absolute"],
                 storage |-> <<>>, arg |-> <<>>, via |-> "none",
                 resolved |-> NoDir]

PathNext ==
    \/ NormalizePath
    \/ ToStoragePath
    \/ ResolveStoragePath
    \/ ResolveInput

PathSpec == PathInit /\ [][PathNext]_vars


----------------------------------------------------------------------------
(* Single instance detection on Linux (single_instance.rs).  The lock file is
   a name that points to an inode; flock locks the inode a descriptor is open
   on, whatever the name points to by then.  The kernel releases the lock when
   the descriptor is closed, also when the process dies. *)

MaxStarts == 4

Instances == {"p1", "p2", "p3"}

NoInode == 0

Inodes == 1..MaxStarts

NoHolder == "none"

NoAttempt == [by |-> "none", ret |-> "none", holders |-> {}]

\* the instances that got Ok from try_acquire_lock and have not begun to exit
Running == {p \in Instances : lock.at[p] = "running"}

\* the live instances that have a lock on an inode
Holding == {p \in Instances : lock.at[p] \in {"running", "dropping"}}

\* OpenOptions::new().read(true).write(true).create(true).open(&lock_path)
OpenLockFile(p) ==
    /\ lock.at[p] = "off"
    /\ lock.starts < MaxStarts
    /\ LET inode == IF lock.file = NoInode THEN lock.created + 1 ELSE lock.file
       IN  lock' = [lock EXCEPT !.at[p] = "opened", !.fd[p] = inode,
                                !.file = inode,
                                !.created = IF lock.file = NoInode THEN @ + 1 ELSE @,
                                !.starts = @ + 1]
    /\ UNCHANGED notLockVars

\* libc::flock(fd, LOCK_EX | LOCK_NB): Ok with the PID written when the inode
\* is not locked, Err (and the instance ends) when it is
Flock(p) ==
    /\ lock.at[p] = "opened"
    /\ IF lock.holder[lock.fd[p]] = NoHolder
       THEN lock' = [lock EXCEPT !.at[p] = "running",
                        !.holder[lock.fd[p]] = p,
                        !.pid[lock.fd[p]] = p,
                        !.last = [by |-> p, ret |-> "Ok", holders |-> Holding]]
       ELSE lock' = [lock EXCEPT !.at[p] = "off", !.fd[p] = NoInode,
                        !.last = [by |-> p, ret |-> "Err", holders |-> Holding]]
    /\ UNCHANGED notLockVars

\* SingleInstanceLock::drop: remove_file(&self.lock_path), whatever the name
\* points to
DropRemoveFile(p) ==
    /\ lock.at[p] = "running"
    /\ lock' = [lock EXCEPT !.at[p] = "dropping", !.file = NoInode]
    /\ UNCHANGED notLockVars

\* the File is closed after the body of drop: the lock is released
DropCloseFile(p) ==
    /\ lock.at[p] = "dropping"
    /\ lock' = [lock EXCEPT !.at[p] = "off", !.fd[p] = NoInode,
                            !.holder[lock.fd[p]] = NoHolder]
    /\ UNCHANGED notLockVars

\* the process dies: its descriptor is closed, the lock file stays
Crash(p) ==
    /\ lock.at[p] \in {"opened", "running", "dropping"}
    /\ lock' = [lock EXCEPT !.at[p] = "off", !.fd[p] = NoInode,
                    !.holder[lock.fd[p]] =
                        IF @ = p THEN NoHolder ELSE @]
    /\ UNCHANGED notLockVars

LockInit ==
    /\ EarlierIdle
    /\ LastIdle
    /\ GitIdle /\ WatchIdle /\ CacheIdle /\ SettingsIdle /\ McpIdle /\ PathIdle
    /\ lock = [pc |-> "run",
               at |-> [p \in Instances |-> "off"],
               fd |-> [p \in Instances |-> NoInode],
               file |-> NoInode,
               holder |-> [i \in Inodes |-> NoHolder],
               pid |-> [i \in Inodes |-> NoHolder],
               created |-> 0, starts |-> 0,
               last |-> NoAttempt]

LockNext ==
    \E p \in Instances :
        \/ OpenLockFile(p)
        \/ Flock(p)
        \/ DropRemoveFile(p)
        \/ DropCloseFile(p)
        \/ Crash(p)

LockSpec == LockInit /\ [][LockNext]_vars


----------------------------------------------------------------------------
(* The SSH sync commands and the stored configuration (coding/ssh/commands.rs,
   coding/ssh/adapter.rs).  One command runs at a time; the database answers
   every query.  An error list is a sequence of messages. *)

MaxSshCalls == 3

NoErrors == <<>>

\* record ssh_sync_config:`config` is absent
NoSshRecord ==
    [exists |-> FALSE, enabled |-> FALSE, conn |-> FALSE,
     last_sync_status |-> "none", last_sync_error |-> NoErrors]

\* the configurations the front end can hand to ssh_save_config: conn tells
\* whether active_connection_id names one of the connections
SshConfigs ==
    [enabled : BOOLEAN, conn : BOOLEAN, sync_mcp : BOOLEAN,
     sync_skills : BOOLEAN, last_sync_status : {"never", "success", "error"},
     last_sync_error : {NoErrors, <<"earlier error">>}]

NoSshResult == [success |-> TRUE, errors |-> NoErrors]

\* sync_mcp and sync_skills are not read from the record
config_from_db_value(value) ==
    [enabled |-> value.exists /\ value.enabled,
     conn |-> value.exists /\ value.conn,
     sync_mcp |-> TRUE,
     sync_skills |-> TRUE,
     last_sync_status |-> IF value.exists /\ value.last_sync_status # "none"
                          THEN value.last_sync_status ELSE "never",
     last_sync_error |-> value.last_sync_error]

\* sync_mcp and sync_skills are not written to the record
config_to_db_value(cfg) ==
    [exists |-> TRUE, enabled |-> cfg.enabled, conn |-> cfg.conn,
     last_sync_status |-> cfg.last_sync_status,
     last_sync_error |-> cfg.last_sync_error]

ssh_get_config == config_from_db_value(ssh.db)

RECURSIVE join_errors(_)
\* result.errors.join("; ")
join_errors(errors) ==
    IF Len(errors) <= 1 THEN errors
    ELSE <<Head(errors), "; ">> \o join_errors(Tail(errors))

\* UPDATE ssh_sync_config SET ... WHERE id = ssh_sync_config:`config`
set_sync_status(db, res) ==
    IF ~db.exists THEN db
    ELSE [db EXCEPT
            !.last_sync_status = IF res.success THEN "success" ELSE "error",
            !.last_sync_error = IF res.success THEN NoErrors
                                ELSE join_errors(res.errors)]

\* variant: a full sync for every enabled configuration that is saved
is_enabled_now(was_enabled, cfg) == cfg.enabled

is_being_enabled(was_enabled, cfg) == ~was_enabled /\ cfg.enabled

\* ssh_save_config up to the call of do_full_sync
SshSaveConfig ==
    /\ ssh.pc = "ready"
    /\ ssh.calls < MaxSshCalls
    /\ \E cfg \in SshConfigs :
        LET was_enabled == ssh.db.exists /\ ssh.db.enabled
            start == is_being_enabled(was_enabled, cfg)
        IN  ssh' = [ssh EXCEPT
                !.cmd = "ssh_save_config", !.calls = @ + 1,
                !.before = ssh.db, !.cfg = cfg,
                !.db = config_to_db_value(cfg),
                !.saved = [some |-> TRUE, sync_mcp |-> cfg.sync_mcp,
                           sync_skills |-> cfg.sync_skills],
                !.writer = "save", !.ran = {},
                !.started = start,
                !.result = NoSshResult,
                !.pc = IF start THEN "files" ELSE "done"]
    /\ UNCHANGED notSshVars

\* ssh_sync up to the call of do_full_sync
SshSync ==
    /\ ssh.pc = "ready"
    /\ ssh.calls < MaxSshCalls
    /\ LET cfg == ssh_get_config
       IN  ssh' = [ssh EXCEPT
                !.cmd = "ssh_sync", !.calls = @ + 1,
                !.before = ssh.db, !.cfg = cfg, !.ran = {},
                !.started = cfg.enabled,
                !.result = IF cfg.enabled THEN NoSshResult
                           ELSE [success |-> FALSE,
                                 errors |-> <<"SSH sync is not enabled">>],
                !.pc = IF cfg.enabled THEN "files" ELSE "done"]
    /\ UNCHANGED notSshVars

\* do_full_sync: the active connection and the file mappings
FullSyncFiles ==
    /\ ssh.pc = "files"
    /\ IF ~ssh.cfg.conn
       THEN ssh' = [ssh EXCEPT
                !.result = [success |-> FALSE,
                            errors |-> <<"No active SSH connection configured">>],
                !.pc = "update"]
       ELSE \E errors \in {NoErrors, <<"mapping: failed">>} :
            ssh' = [ssh EXCEPT
                !.result = [success |-> errors = NoErrors, errors |-> errors],
                !.pc = "mcp"]
    /\ UNCHANGED notSshVars

\* a sub-step reads the configuration itself and, when it runs, ends by
\* writing the status of a result without errors
SubStepRuns(flag) ==
    /\ flag
    /\ ssh_get_config.enabled
    /\ ssh_get_config.conn

\* do_full_sync: if config.sync_mcp { sync_mcp_to_ssh }
FullSyncMcp ==
    /\ ssh.pc = "mcp"
    /\ LET runs == ssh.cfg.sync_mcp /\ SubStepRuns(ssh_get_config.sync_mcp)
       IN  ssh' = [ssh EXCEPT
                !.db = IF runs THEN set_sync_status(@, NoSshResult) ELSE @,
                !.writer = IF runs THEN "mcp" ELSE @,
                !.ran = IF runs THEN @ \cup {"mcp"} ELSE @,
                !.pc = "skills"]
    /\ UNCHANGED notSshVars

\* do_full_sync: if config.sync_skills { sync_skills_to_ssh }; the central
\* directory may not resolve, then the sub-step returns Err
FullSyncSkills ==
    /\ ssh.pc = "skills"
    /\ LET runs == ssh.cfg.sync_skills /\ SubStepRuns(ssh_get_config.sync_skills)
       IN  \E ok \in BOOLEAN :
            /\ ok \/ runs
            /\ ssh' = [ssh EXCEPT
                !.db = IF runs /\ ok THEN set_sync_status(@, NoSshResult) ELSE @,
                !.writer = IF runs /\ ok THEN "skills" ELSE @,
                !.ran = IF runs THEN @ \cup {"skills"} ELSE @,
                !.result = IF ok THEN @
                           ELSE [success |-> FALSE,
                                 errors |-> Append(@.errors, "Skills sync: failed")],
                !.pc = "update"]
    /\ UNCHANGED notSshVars

\* variant: the command returns without writing its status
SshKeepStatus ==
    /\ ssh.pc = "update"
    /\ ssh' = [ssh EXCEPT !.pc = "done"]
    /\ UNCHANGED notSshVars

\* update_sync_status(state, &result) of the command
SshUpdateStatus ==
    /\ ssh.pc = "update"
    /\ ssh' = [ssh EXCEPT !.db = set_sync_status(@, ssh.result),
                          !.writer = "command", !.pc = "done"]
    /\ UNCHANGED notSshVars

\* the command has returned
SshReturn ==
    /\ ssh.pc = "done"
    /\ ssh' = [ssh EXCEPT !.pc = "ready"]
    /\ UNCHANGED notSshVars

SshInit ==
    /\ EarlierIdle
    /\ LaterIdle
    /\ ClaudeIdle
    /\ ssh = [pc |-> "ready", cmd |-> "none", calls |-> 0,
              db |-> NoSshRecord, before |-> NoSshRecord,
              cfg |-> config_from_db_value(NoSshRecord),
              saved |-> [some |-> FALSE, sync_mcp |-> TRUE, sync_skills |-> TRUE],
              writer |-> "none", ran |-> {}, started |-> FALSE,
              result |-> NoSshResult]

SshNext ==
    \/ SshSaveConfig
    \/ SshSync
    \/ FullSyncFiles
    \/ FullSyncMcp
    \/ FullSyncSkills
    \/ SshUpdateStatus
    \/ SshReturn

SshSpec == SshInit /\ [][SshNext]_vars

----------------------------------------------------------------------------
(* The remote ~/.claude.json under sync_mcp_to_ssh_claude *)

MaxClaudeCalls == 2

McpServerNames == {"s1", "s2"}
\* top-level fields of the file other than mcpServers
OtherFields == {"theme", "projects"}
NO_FIELD == "no-field"
OtherValues == {NO_FIELD, "v1", "v2"}

\* what the remote file holds: a JSON(5) object, nothing (missing or blank),
\* a JSON value that is not an object, text that does not parse, or the
\* beginning of a text whose writing was cut off
NoFields == [f \in OtherFields |-> NO_FIELD]
RemoteClaudeFiles ==
    [kind : {"object"}, has_mcp : BOOLEAN, mcp : SUBSET McpServerNames,
     other : [OtherFields -> OtherValues]]
    \cup [kind : {"blank", "array", "garbage"}, has_mcp : {FALSE}, mcp : {{}},
          other : {NoFields}]
CutOffFile == [kind |-> "partial", has_mcp |-> FALSE, mcp |-> {}, other |-> NoFields]

\* if existing_content.trim().is_empty() { json!({}) } else { json5::from_str(..)? }
parse_existing(file) ==
    CASE file.kind = "blank" ->
            [ok |-> TRUE, object |-> TRUE, has_mcp |-> FALSE, mcp |-> {},
             other |-> NoFields]
      [] file.kind = "object" ->
            [ok |-> TRUE, object |-> TRUE, has_mcp |-> file.has_mcp,
             mcp |-> file.mcp, other |-> file.other]
      [] file.kind = "array" ->
            [ok |-> TRUE, object |-> FALSE, has_mcp |-> FALSE, mcp |-> {},
             other |-> NoFields]
      [] OTHER ->
            [ok |-> FALSE, object |-> FALSE, has_mcp |-> FALSE, mcp |-> {},
             other |-> NoFields]

\* config.as_object_mut()...insert("mcpServers", Value::Object(mcp_servers))
insert_mcp_servers(parsed, servers) ==
    [kind |-> "object", has_mcp |-> TRUE, mcp |-> servers, other |-> parsed.other]

\* write_remote_file: `mkdir -p dirname && cat > path` fed through stdin.  The
\* remote shell truncates the file before the first byte arrives, so a write
\* that fails leaves the old file (command never started) or a cut-off one.
WriteOutcomes == {"ok", "refused", "cut"}
write_claude_json(old, content, outcome) ==
    CASE outcome = "ok" -> content
      [] outcome = "refused" -> old
      [] OTHER -> CutOffFile

\* the whole function: the file it leaves and what it returns
sync_mcp_to_ssh_claude(file, servers, read_ok, outcome) ==
    LET parsed == parse_existing(file) IN
    IF ~read_ok THEN [file |-> file, ret |-> "read failed", wrote |-> FALSE]
    ELSE IF ~parsed.ok
    THEN [file |-> file, ret |-> "Failed to parse remote claude.json", wrote |-> FALSE]
    ELSE IF ~parsed.object
    THEN [file |-> file, ret |-> "Remote claude.json is not a JSON object", wrote |-> FALSE]
    ELSE [file |-> write_claude_json(file, insert_mcp_servers(parsed, servers), outcome),
          ret |-> IF outcome = "ok" THEN "Ok" ELSE "SSH write command failed",
          wrote |-> TRUE]

ClaudeSync ==
    /\ claude.pc = "ready"
    /\ claude.calls < MaxClaudeCalls
    /\ \E servers \in SUBSET McpServerNames, read_ok \in BOOLEAN,
          outcome \in WriteOutcomes :
        LET r == sync_mcp_to_ssh_claude(claude.file, servers, read_ok, outcome) IN
        /\ r.wrote \/ outcome = "ok"
        /\ claude' = [claude EXCEPT
                !.pc = "returned",
                !.calls = @ + 1,
                !.before = claude.file,
                !.file = r.file,
                !.servers = servers,
                !.ret = r.ret]
    /\ UNCHANGED notClaudeVars

\* sync_mcp_to_ssh logs `Skipped claude.json MCP sync` on Err and goes on
ClaudeReturn ==
    /\ claude.pc = "returned"
    /\ claude' = [claude EXCEPT !.pc = "ready"]
    /\ UNCHANGED notClaudeVars

ClaudeInit ==
    /\ EarlierIdle
    /\ LaterIdle
    /\ SshIdle
    /\ \E f \in RemoteClaudeFiles :
        claude = [pc |-> "ready", calls |-> 0, file |-> f, before |-> f,
                  servers |-> {}, ret |-> "none"]

ClaudeNext ==
    \/ ClaudeSync
    \/ ClaudeReturn

ClaudeSpec == ClaudeInit /\ [][ClaudeNext]_vars

----------------------------------------------------------------------------
(* Properties of the skills sync *)

\* a run has returned Ok(()) and nothing changed locally since
Completed == pc = "idle" /\ run.result = "ok" /\ ~dirty

\* a run has returned, with Ok or with Err
Returned == pc = "idle" /\ run.result \in {"ok", "err"}

\* the loop is about to visit a skill whose source directory exists
Visiting(n) ==
    /\ pc = "loop"
    /\ queue # <<>>
    /\ Head(queue) = n
    /\ skills[n].source_exists

\* the failed operations of the run that act on one item
ItemFaults(r) ==
    {f \in r.faults : f[1] \in {"copy", "marker", "create", "remove", "unlink", "rmdir"}}

\* C1: after a completed sync every local skill has, for each enabled tool
\* with a skills directory, a symlink to its remote central copy.
C1_SymlinkForEveryEnabledTool ==
    Completed =>
        \A n \in local_skill_names :
            \A t \in skills[n].enabled_tools \cap get_all_skill_tool_keys :
                link[t][n] = "link"

\* C2: after the sync that follows a local removal, neither the central copy
\* nor a symlink of the removed skill is left on the remote.
C2_NoTraceOfRemovedSkill ==
    Completed =>
        \A n \in removed :
            /\ central[n] = ABSENT
            /\ \A t \in get_all_skill_tool_keys : link[t][n] # "link"

\* C3: a visited skill whose marker is absent or differs from the local hash
\* (a hash not yet computed included) is transferred, and once the copy and
\* the marker write succeed the remote holds the content and the local hash.
C3_CopyWhenMarkerAbsentOrDifferent ==
    [][\A n \in Names :
        (Visiting(n) /\ (marker[n] = ABSENT \/ marker[n] # skills[n].content_hash))
            => /\ n \in run'.transfers
               /\ (run'.faults = run.faults =>
                      central'[n] = skills[n].content /\ marker'[n] = skills[n].content_hash)
      ]_vars

C6_NoStaleSymlink ==
    Completed =>
        \A n \in local_skill_names :
            \A t \in get_all_skill_tool_keys \ skills[n].enabled_tools :
                link[t][n] # "link"

\* C7: a failed copy or marker write of one skill does not keep the run from
\* visiting every other local skill.
C7_FailureDoesNotAbort ==
    (Returned /\ ~dirty) =>
        \A n \in local_skill_names :
            skills[n].source_exists => n \in run.visited

\* C8: a run in which a per-item remote operation failed does not report
\* (nor persist) success.
C8_FailuresAreReported ==
    (Returned /\ ItemFaults(run) # {}) =>
        /\ run.result = "err" \/ run.errors # <<>>
        /\ ~(sync_status.last_sync_time = run.no
                /\ sync_status.last_sync_status = "success")

\* C10: once a run has returned, with Ok or with Err, the persisted status
\* is the one of that run.
C10_StatusPersistedAfterEveryRun ==
    Returned =>
        /\ sync_status.last_sync_time = run.no
        /\ sync_status.last_sync_status = (IF run.result = "ok" THEN "success" ELSE "error")

----------------------------------------------------------------------------
(* Properties of the file-mapping sync *)

Selected(i) ==
    mappings[i].enabled /\ (module_filter = "none" \/ mappings[i].module = module_filter)

SeqToSet(q) == {q[i] : i \in DOMAIN q}

----------------------------------------------------------------------------
(* Properties of concurrent passes *)

BothDone == \A p \in Passes : pass[p].pc = "done"

\* C11: once two concurrent passes have both finished, every local skill
\* has a complete remote central copy, a marker equal to the local content
\* hash and a symlink for each enabled tool, as after a single pass.
C11_ConcurrentPassesDoNotCorrupt ==
    BothDone =>
        \A n \in local_skill_names :
            /\ central[n] = skills[n].content
            /\ marker[n] = skills[n].content_hash
            /\ \A t \in skills[n].enabled_tools \cap get_all_skill_tool_keys :
                  link[t][n] = "link"

----------------------------------------------------------------------------
(* Properties of the record store *)

\* C12: the store never holds two SkillTarget records for the same
\* (skill_id, tool) pair, whatever calls were made in whatever order.
C12_OneTargetPerSkillAndTool ==
    \A r1, r2 \in db_skill_target :
        (r1.skill_id = r2.skill_id /\ r1.tool = r2.tool) => r1 = r2

\* an upsert for a pair that had a row, made with another record id, has
\* returned: the row kept its id and took the new path, next to other rows
C12_Witness ==
    /\ store_log.op = "upsert_skill_target"
    /\ store_log.found
    /\ store_log.arg # NoId
    /\ \E r \in db_skill_target :
          r.id # store_log.arg /\ r.target_path = <<"t2", "b">> /\ r.tool = "t1"
    /\ Cardinality(db_skill_target) >= 2

----------------------------------------------------------------------------
(* Properties of the skills commands *)

AllReturned == \A k \in Tasks : call[k].pc = "idle"

\* the command that has just returned, when commands run one at a time
JustDone(cmd) == ~concurrent /\ last_done.cmd = cmd /\ call[1].cmd = cmd

\* C13: when skills_delete_managed has returned Ok for a skill, the Skill
\* record, its central directory, every SkillTarget record of the skill and
\* every target path those records named are gone.
C13_DeleteRemovesEverything ==
    (JustDone("delete") /\ last_done.ret.status = "Ok") =>
        LET c == call[1] IN
        /\ ~db_skill[c.skillId].exists
        /\ db_skill[c.skillId].central_path \notin fs_central
        /\ get_skill_targets(db_skill_target, c.skillId) = {}
        /\ \A q \in c.targets : fs_target[q] = NoEntry

\* a delete has returned Ok for a skill that was synced to a tool
C13_Witness ==
    /\ JustDone("delete")
    /\ last_done.ret.status = "Ok"
    /\ call[1].found
    /\ call[1].targets # {}
    /\ db_skill[call[1].skillId].used
    /\ \E i \in SkillIds : db_skill[i].exists

\* C14: when all calls of skills_sync_to_tool, skills_unsync_from_tool and
\* skills_delete_managed have returned, every SkillTarget record belongs to
\* a Skill record that exists.
C14_NoTargetOfDeletedSkill ==
    AllReturned =>
        \A r \in db_skill_target : db_skill[r.skill_id].exists

\* this step is task k entering command cmd
Started(k, cmd) == call'[k].no # call[k].no /\ call'[k].cmd = cmd

\* where a call puts the skill: the tool's skills directory and the name
TargetOf(c) == <<c.tool, c.name>>

\* C15 as stated: a sync without overwrite onto a path that holds something
\* fails with TARGET_EXISTS| and that path, and replaces nothing.
C15_ConflictWhenTargetExists ==
    [][\A k \in Tasks :
        (Started(k, "sync") /\ ~call'[k].overwrite
            /\ call'[k].tool \in LocalTools
            /\ fs_target[TargetOf(call'[k])] # NoEntry)
        => /\ call'[k].pc = "idle"
           /\ call'[k].ret = RetErr("TARGET_EXISTS|", TargetOf(call'[k]))
           /\ fs_target' = fs_target
           /\ db_skill_target' = db_skill_target
      ]_vars

\* C15 amended: a sync without overwrite to an installed tool, onto a path
\* that holds something other than the link to this very source, fails with
\* TARGET_EXISTS| and that path, replaces nothing and writes no record; the
\* same call with overwrite puts the link there.
C15_ConflictWhenForeignTargetExists ==
    [][\A k \in Tasks :
        LET c == call'[k] IN
        (Started(k, "sync") /\ c.tool \in LocalTools /\ installed[c.tool]
            /\ fs_target[TargetOf(c)] \notin {NoEntry, Link(c.sourcePath)})
        => IF c.overwrite
           THEN /\ c.pc = "upsert"
                /\ fs_target'[TargetOf(c)] = Link(c.sourcePath)
           ELSE /\ c.pc = "idle"
                /\ c.ret = RetErr("TARGET_EXISTS|", TargetOf(c))
                /\ fs_target' = fs_target
                /\ db_skill_target' = db_skill_target
      ]_vars

\* a sync without overwrite has come back with the conflict on a directory
\* the user had put at the target path, which is still there
C15_Witness ==
    \E k \in Tasks :
        /\ call[k].cmd = "sync"
        /\ call[k].pc = "idle"
        /\ ~call[k].overwrite
        /\ call[k].ret = RetErr("TARGET_EXISTS|", <<"t1", "a">>)
        /\ fs_target[<<"t1", "a">>] = Foreign
        /\ select_target(db_skill_target, call[k].skillId, "t1") = {}

UnsyncStep(k) ==
    \/ Started(k, "unsync")
    \/ call[k].cmd = "unsync" /\ call[k].pc = "delete_target" /\ call'[k].pc = "idle"

\* the step with which task k returns Ok from skills_unsync_from_tool, for
\* a skill that is synced to the tool and with no other command running
\* meanwhile
UnsyncReturnsOk(k) ==
    /\ ~concurrent
    /\ UnsyncStep(k)
    /\ call'[k].pc = "idle"
    /\ call'[k].ret.status = "Ok"
    /\ select_target(db_skill_target, call'[k].skillId, call'[k].tool) # {}

\* after the step: no record for the pair, nothing at the record's path
Unsynced(c) ==
    /\ select_target(db_skill_target', c.skillId, c.tool) = {}
    /\ \A r \in select_target(db_skill_target, c.skillId, c.tool) :
           fs_target'[r.target_path] = NoEntry

\* C17 as stated: an unsync of a synced skill that returns Ok has removed
\* what is at the target path and the SkillTarget record, and no step of it touches the
\* Skill records or the central directories.
C17_UnsyncRemovesTargetOnly ==
    [][\A k \in Tasks :
        /\ UnsyncStep(k) => (db_skill' = db_skill /\ fs_central' = fs_central)
        /\ UnsyncReturnsOk(k) => Unsynced(call'[k])
      ]_vars

\* C17 amended: an unsync of a synced skill from an installed tool that
\* returns Ok has removed what is at the target path and the SkillTarget
\* record, and no step of an unsync touches the Skill records or the
\* central directories.
C17_UnsyncFromInstalledToolRemovesTargetOnly ==
    [][\A k \in Tasks :
        /\ UnsyncStep(k) => (db_skill' = db_skill /\ fs_central' = fs_central)
        /\ (UnsyncReturnsOk(k) /\ installed[call'[k].tool]) => Unsynced(call'[k])
      ]_vars

\* an unsync of a synced skill has returned Ok: link and record are gone,
\* the Skill record and its central directory are there
C17_Witness ==
    /\ JustDone("unsync")
    /\ call[1].found
    /\ call[1].ret = RetOk(<<"t1", db_skill[call[1].skillId].name>>)
    /\ fs_target[call[1].ret.detail] = NoEntry
    /\ db_skill_target = {}
    /\ db_skill[call[1].skillId].exists
    /\ db_skill[call[1].skillId].central_path \in fs_central

\* C18: every Skill record's canonical path lies inside the central
\* repository root that is configured at the moment, also after the root was
\* changed with skills_set_central_repo_path.
C18_SkillPathInsideCentralRoot ==
    \A i \in SkillIds :
        db_skill[i].exists =>
            db_skill[i].central_path[1] = resolve_central_repo_path(settings)

StablePrefix ==
    [target_exists |-> "TARGET_EXISTS|", multi_skills |-> "MULTI_SKILLS|",
     tool_not_installed |-> "TOOL_NOT_INSTALLED|",
     git_not_found |-> "GIT_NOT_FOUND"]

\* C20: every conflict error (target already exists, multiple candidates)
\* and every unavailable error (tool not installed, git not found) that a
\* skills command returns starts with its stable prefix, however the
\* underlying error was wrapped.
C20_ErrorStartsWithStablePrefix ==
    (epc = "returned" /\ err_kind \in DOMAIN StablePrefix) =>
        starts_with(reply, StablePrefix[err_kind])

----------------------------------------------------------------------------
(* Properties of clone_or_pull *)

StepNames(st) == [i \in DOMAIN st |-> st[i].step]

\* the steps of a whole call, in their order
GitOrder(existed, branch) ==
    <<"git_bin", "create_dir_all">>
    \o (IF existed
        THEN <<"fetch", IF branch THEN "checkout -B" ELSE "reset --hard">>
        ELSE <<"clone">>)
    \o (IF branch THEN <<"checkout">> ELSE <<>>)
    \o <<"rev-parse">>

GitReturned == git.pc = "done"

\* the trailing git checkout came back with a non-zero exit status
Tolerated(s) == s.step = "checkout" /\ s.out = "nonzero"

\* C21 as stated: clone_or_pull returns a revision only if every step it
\* ran succeeded, the steps being run in their order; the first step that
\* fails ends the call with an error and no later step is run.
C21_RevisionOnlyIfEveryStepSucceeded ==
    /\ \A i \in 1..(Len(git.steps) - 1) : git.steps[i].out = "ok"
    /\ (GitReturned /\ git.ret.status = "Ok") =>
          /\ \A i \in DOMAIN git.steps : git.steps[i].out = "ok"
          /\ StepNames(git.steps) = GitOrder(git.existed, git.branch)
    /\ (GitReturned /\ \E i \in DOMAIN git.steps : git.steps[i].out # "ok") =>
          git.ret.status = "Err"

\* C21 amended: the same, except that a non-zero exit status of the
\* trailing git checkout of the branch does not end the call.
C21_RevisionOnlyIfEveryStepButCheckoutSucceeded ==
    /\ \A i \in 1..(Len(git.steps) - 1) :
          git.steps[i].out = "ok" \/ Tolerated(git.steps[i])
    /\ (GitReturned /\ git.ret.status = "Ok") =>
          /\ \A i \in DOMAIN git.steps :
                git.steps[i].out = "ok" \/ Tolerated(git.steps[i])
          /\ StepNames(git.steps) = GitOrder(git.existed, git.branch)
    /\ (GitReturned /\ \E i \in DOMAIN git.steps :
                          git.steps[i].out # "ok" /\ ~Tolerated(git.steps[i])) =>
          git.ret.status = "Err"

\* the second call, a fetch into the clone of the first with a branch, has
\* returned a revision although its trailing checkout failed
C21_Witness ==
    /\ GitReturned
    /\ git.calls = 2
    /\ git.existed
    /\ git.branch
    /\ git.ret = GitOk("head")
    /\ StepNames(git.steps) = GitOrder(TRUE, TRUE)
    /\ git.steps[5].out = "nonzero"

----------------------------------------------------------------------------
(* Properties of run_cmd_with_timeout *)

WatchReturned == watch.pc = "done"

\* the call returns
WatchReturns == <>WatchReturned

\* what a call that returned something about the child returned, by the
\* time at which the child exited
WatchOutcome ==
    (WatchReturned /\ watch.ret.kind # "io") =>
        IF watch.child = "reaped" /\ ~watch.killed /\ watch.exit_at <= git_timeout
        THEN watch.ret.kind = "output"
        ELSE /\ watch.ret = [kind |-> "GIT_TIMEOUT|", limit |-> git_timeout]
             /\ watch.child = "reaped"

\* C22: every call returns; when the child exited within the timeout the
\* call returns its output, otherwise the child is killed and the call
\* returns a timeout error with the configured limit; the child is not left
\* running after a timeout was reported.
C22_WatchdogReturnsOutputOrTimeout == WatchReturns /\ []WatchOutcome

\* what a call returned, by what the loop saw when it last looked at the
\* clock: within the timeout, the output of a child that was found exited;
\* beyond it, the timeout error, the child being killed if it still ran
WatchOutcomeAtPoll ==
    WatchReturned =>
        /\ watch.ret.kind \in {"output", "GIT_TIMEOUT|", "io"}
        /\ watch.ret.kind = "output" =>
              /\ watch.checked_at <= git_timeout
              /\ watch.child = "reaped" /\ ~watch.killed
        /\ watch.ret.kind = "GIT_TIMEOUT|" =>
              /\ watch.checked_at > git_timeout
              /\ watch.ret.limit = git_timeout
              /\ watch.child = "reaped"
        /\ watch.ret.kind = "io" => watch.checked_at <= git_timeout

\* C22 amended: every call returns; a call returns the output of the child
\* when a look at the clock within the timeout is followed by finding the
\* child exited, and the timeout error with the configured limit when it
\* finds the timeout exceeded at the top of the loop, the child then being
\* killed and reaped, whether or not it had exited meanwhile.
C22_WatchdogReturnsByWhatThePollSaw == WatchReturns /\ []WatchOutcomeAtPoll

\* the watchdog killed a child that was still running and reported the timeout
C22_Witness ==
    /\ WatchReturned
    /\ watch.killed
    /\ watch.child = "reaped"
    /\ watch.ret = [kind |-> "GIT_TIMEOUT|", limit |-> git_timeout]

----------------------------------------------------------------------------
(* Properties of the git cache cleanup *)

\* the age of a clone: the marker's when there is a usable marker, the
\* directory's modification time when there is none
AgeSource(entry) ==
    IF entry.marker.kind = "meta" /\ entry.marker.last_fetched_ms > 0
    THEN entry.marker.last_fetched_ms
    ELSE entry.modified

\* C23: for each cached clone the janitor takes the age from the marker when
\* there is one and from the modification time only when there is none, and
\* it decides to remove the clone exactly when that age is at or beyond the
\* retention window.
C23_StalenessFromMarkerElseMtime ==
    \A c \in Clones :
        cache.decided[c] \in {"keep", "remove"} =>
            (cache.decided[c] = "remove"
                <=> AgeSource(cache.before[c]) <= cache.now - cache.max_age)

CleanupReturned == cache.pc = "done" /\ cache.ret.status = "Ok"

ClonesOf(dirs) == {c \in Clones : dirs[c].exists /\ dirs[c].git}

FromTheFuture(entry, now) ==
    /\ entry.modified > now
    /\ ~(entry.marker.kind = "meta" /\ entry.marker.last_fetched_ms > 0
         /\ entry.marker.last_fetched_ms <= now)

----------------------------------------------------------------------------
(* Properties of the settings record *)

\* C25: set_git_cache_cleanup_days(d) succeeds exactly when 0 <= d <= 3650;
\* a rejected call leaves the stored value unchanged;
\* get_git_cache_cleanup_days returns the last accepted value, or 30 when
\* none was stored.
C25_CleanupDaysAcceptedInRangeOnly ==
    /\ skill_settings.last.op = "set_days" =>
          /\ skill_settings.last.ok
                <=> (0 <= skill_settings.last.value.n
                     /\ skill_settings.last.value.n <= 3650)
          /\ skill_settings.last.ok =>
                skill_settings.record["git_cache_cleanup_days"]
                    = skill_settings.last.value
          /\ ~skill_settings.last.ok =>
                skill_settings.record = skill_settings.prev
    /\ skill_settings.last.op = "get_days" =>
          skill_settings.last.ret =
              IF skill_settings.accepted = Null THEN Num(30)
              ELSE skill_settings.accepted

\* 3651 days were rejected after 7 were accepted, and the next read gave 7
C25_Witness ==
    /\ skill_settings.last.op = "get_days"
    /\ skill_settings.last.ret = Num(7)
    /\ skill_settings.before.op = "set_days"
    /\ skill_settings.before.value = Num(3651)
    /\ ~skill_settings.before.ok

\* C26: set_setting(key, value) leaves the value of every other setting key
\* unchanged, and a following get_setting(key) returns the value written.
C26_SetSettingTouchesOneKey ==
    /\ skill_settings.last.op = "set_setting" =>
          \A f \in Fields \ {skill_settings.last.key, "updated_at"} :
              skill_settings.record[f] = skill_settings.prev[f]
    /\ (/\ skill_settings.last.op = "get_setting"
        /\ skill_settings.before.op = "set_setting"
        /\ skill_settings.before.key = skill_settings.last.key) =>
          skill_settings.last.got = Some(skill_settings.before.value.s)

\* a key was written while another key and the cleanup days were set, and
\* the next read of the key gave the value
C26_Witness ==
    /\ skill_settings.last.op = "get_setting"
    /\ skill_settings.last.key = "central_repo_path"
    /\ skill_settings.last.got = Some("x")
    /\ skill_settings.before.op = "set_setting"
    /\ skill_settings.record["preferred_tools_v1"] = Str("y")
    /\ skill_settings.record["git_cache_cleanup_days"] = Num(7)

----------------------------------------------------------------------------
(* Properties of the remote MCP sync *)

McpRunCompleted == mcp.pc = "done"

\* C27: after a remote sync run has completed, no MCP configuration file of
\* the remote holds a server started through the Windows cmd wrapper,
\* whichever pass wrote the file.
C27_NoCmdWrapperOnRemote ==
    (mcp.pc # "idle" /\ McpRunCompleted) =>
        \A f \in McpConfigFiles : mcp.remote[f] # "cmd"


----------------------------------------------------------------------------
(* Properties of the path normalization *)

\* the input without surrounding blanks, separators written "/"
Plain(p) == replace(trim(p), "\\", "/")

\* what kind of path the input is
InputKind(p) ==
    LET t == Plain(p)
    IN  IF t = <<"~">> \/ starts_with_str(t, <<"~", "/">>) THEN "home"
        ELSE IF t # <<>> /\ t[1] \in {"%APPDATA%", "%appdata%"}
                /\ (Len(t) = 1 \/ t[2] = "/") THEN "appdata"
        ELSE IF starts_with(t, "/") THEN "absolute"
        ELSE "other"

\* the directory the kind of input is relative to
BaseOf(p) ==
    CASE InputKind(p) = "home" -> paths.home_dir
      [] InputKind(p) = "appdata" -> paths.config_dir
      [] OTHER -> SomePath(<<>>)

\* the resolution of the input: the rest of a prefixed input below its
\* directory, an absolute input itself
Resolution(p) ==
    IF InputKind(p) \in {"home", "appdata"}
    THEN BaseOf(p).path \o <<"/">> \o from(Plain(p), 1)
    ELSE Plain(p)

\* the input went through normalize_path, to_storage_path and
\* resolve_storage_path
RoundTripped ==
    /\ paths.pc = "resolved"
    /\ paths.via = "normalized"

\* C28: for a home-relative, platform-directory-relative or absolute input
\* p whose directory is known, resolving the normalized form of p gives a
\* path equivalent to the resolution of p; a "~/" or "%APPDATA%" prefix, in
\* either slash style, is stripped by normalize_path and put back by
\* to_storage_path.
C28_RoundTripResolvesLikeInput ==
    (RoundTripped /\ InputKind(paths.input) # "other"
        /\ BaseOf(paths.input).some) =>
        /\ paths.resolved.some
        /\ components(paths.resolved.path) = components(Resolution(paths.input))
        /\ InputKind(paths.input) = "home" =>
            /\ paths.normalized.path = from(Plain(paths.input), 2)
            /\ starts_with(paths.storage, "~")
        /\ InputKind(paths.input) = "appdata" =>
            /\ paths.normalized.path = from(Plain(paths.input), 2)
            /\ starts_with(paths.storage, "%APPDATA%")

\* the directory the argument of resolve_storage_path needs is not known
Unresolvable ==
    \/ InputKind(paths.arg) \in {"home", "other"} /\ ~paths.home_dir.some
    \/ InputKind(paths.arg) = "appdata" /\ ~paths.config_dir.some

\* C29: resolve_storage_path returns a path for every input string, and an
\* input that cannot be resolved is returned as the literal path.
C29_ResolveIsTotal ==
    paths.pc = "resolved" =>
        /\ paths.resolved.some
        /\ Unresolvable => paths.resolved.path = trim(paths.arg)

----------------------------------------------------------------------------
(* Properties of the single instance lock *)

\* C30: under any interleaving of starts, exits and crashes at most one
\* running instance holds the single-instance lock: try_acquire_lock returns
\* Ok only when no instance that holds the lock is running, and Err only
\* when one is (so the file a crashed instance left does not keep a new one
\* out).
C30_AtMostOneInstanceHoldsTheLock ==
    lock.pc # "idle" =>
        /\ Cardinality(Running) <= 1
        /\ lock.last.ret = "Ok" => lock.last.holders = {}
        /\ lock.last.ret = "Err" => lock.last.holders # {}

----------------------------------------------------------------------------
(* Properties of the SSH sync commands *)

SshSyncFinished == ssh.pc = "done" /\ ssh.cmd = "ssh_sync"

\* C31: when ssh_sync has finished, last_sync_status is "success" exactly
\* when the returned result has no errors, and otherwise it is "error" with
\* last_sync_error holding the errors of that result; the status a sub-step
\* (MCP sync, skills sync) wrote is not the one that stays.
C31_StatusIsTheResultOfSshSync ==
    (ssh.pc # "idle" /\ SshSyncFinished) =>
        /\ ssh.db.last_sync_status = "success" <=> ssh.result.errors = NoErrors
        /\ ssh.result.errors # NoErrors =>
            /\ ssh.db.last_sync_status = "error"
            /\ ssh.db.last_sync_error = join_errors(ssh.result.errors)
        /\ ssh.writer \notin {"mcp", "skills"}

\* C31, amended: the same for an ssh_sync that found the configuration
\* enabled; a call on a disabled configuration returns its error and leaves
\* the stored status as it was.
C31_StatusIsTheResultOfEnabledSshSync ==
    (ssh.pc # "idle" /\ SshSyncFinished) =>
        IF ssh.cfg.enabled
        THEN /\ ssh.db.last_sync_status = "success" <=> ssh.result.errors = NoErrors
             /\ ssh.result.errors # NoErrors =>
                 /\ ssh.db.last_sync_status = "error"
                 /\ ssh.db.last_sync_error = join_errors(ssh.result.errors)
             /\ ssh.writer \notin {"mcp", "skills"}
        ELSE /\ ssh.result.errors = <<"SSH sync is not enabled">>
             /\ ssh.db = ssh.before

\* ssh_sync finished with two errors after the MCP sync had written "success"
C31_Witness ==
    /\ ssh.pc # "idle"
    /\ SshSyncFinished
    /\ ssh.cfg.enabled
    /\ "mcp" \in ssh.ran
    /\ Len(ssh.result.errors) = 2
    /\ ssh.db.last_sync_status = "error"

SaveConfigCalled == ssh.pc # "idle" /\ ssh.cmd = "ssh_save_config"

\* C32: ssh_save_config starts a full sync exactly when the stored
\* configuration was disabled or absent before the call and the saved one is
\* enabled.
C32_FullSyncOnlyWhenBeingEnabled ==
    SaveConfigCalled =>
        (ssh.started <=>
            /\ ~(ssh.before.exists /\ ssh.before.enabled)
            /\ ssh.cfg.enabled)

\* an enabled configuration was saved over an enabled one: no sync
C32_Witness ==
    /\ SaveConfigCalled
    /\ ssh.pc = "done"
    /\ ssh.before.exists /\ ssh.before.enabled
    /\ ssh.cfg.enabled
    /\ ~ssh.started

\* C39: a configuration saved with skills sync or MCP sync switched off is
\* read back with that flag off, and the runs of ssh_sync that follow skip
\* that sub-step.
C39_SyncFlagsAreReadBackAsSaved ==
    (ssh.pc # "idle" /\ ssh.saved.some) =>
        /\ ssh_get_config.sync_skills = ssh.saved.sync_skills
        /\ ssh_get_config.sync_mcp = ssh.saved.sync_mcp
        /\ SshSyncFinished =>
            /\ ~ssh.saved.sync_skills => "skills" \notin ssh.ran
            /\ ~ssh.saved.sync_mcp => "mcp" \notin ssh.ran

----------------------------------------------------------------------------
(* Further properties of the skills sync *)

Hashes == {HashOf(c) : c \in Contents}

\* C33: whenever the remote marker of a skill holds a hash h, the remote
\* central directory of the skill is a complete copy of content whose hash
\* is h, also after runs in which a copy or a marker write failed.
C33_MarkerTellsWhatWasCopied ==
    \A n \in Names :
        marker[n] \in Hashes =>
            /\ central[n] \in Contents
            /\ HashOf(central[n]) = marker[n]

DeletionStep == pc = "delete" /\ pc' = "loop"

\* C34: the deletion step of a skills sync removes neither the remote
\* central copy nor a tool symlink of a skill that is in the local skill
\* set, and removes nothing when the remote central directory could not be
\* listed.
C34_DeletionSparesLocalSkills ==
    [][DeletionStep =>
        /\ \A n \in Names :
            skills[n].present =>
                /\ central'[n] = central[n]
                /\ marker'[n] = marker[n]
                /\ \A t \in get_all_skill_tool_keys : link'[t][n] = link[t][n]
        /\ Op("list", "-", "-") \in run.faults =>
            /\ central' = central
            /\ marker' = marker
            /\ link' = link]_vars

\* the deletion step has removed the copy of a skill that is gone and has
\* left the copy of one that is still local
C34_Witness ==
    /\ pc = "loop"
    /\ \E n \in run.listed : ~skills[n].present /\ central[n] = ABSENT
    /\ \E m \in run.listed : skills[m].present /\ central[m] # ABSENT

\* C35: a skills sync removes or replaces an entry of a tool's remote skills
\* directory only if the entry is a symlink into the remote central
\* directory; a real directory under a skill's name stays as it is.
C35_OwnDirectoryIsLeftAlone ==
    [][\A t \in get_all_skill_tool_keys, n \in Names :
        link[t][n] = OWN_DIR => link'[t][n] = OWN_DIR]_vars

(* Properties of the remote ~/.claude.json *)

ClaudeSynced == claude.pc = "returned"

\* C36: syncing MCP servers into the remote ~/.claude.json changes only its
\* mcpServers field: every other top-level field keeps the value it had
\* before, and a file that cannot be parsed is not overwritten.
C36_OnlyMcpServersChanges ==
    ClaudeSynced =>
        /\ \A f \in OtherFields : claude.file.other[f] = claude.before.other[f]
        /\ claude.before.kind \in {"garbage", "partial"} =>
                claude.file = claude.before

(* Further properties of clone_or_pull *)

\* in this call git was found, no command was killed or could not be run,
\* and no command failed but the fetch into an unfinished clone
GitWorked ==
    /\ git.bin
    /\ \A i \in DOMAIN git.steps :
        \/ git.steps[i].out = "ok"
        \/ /\ git.steps[i].step = "fetch"
           /\ git.steps[i].out = "nonzero"
           /\ git.partial

\* C37: a clone that failed or was killed at the timeout leaves the
\* destination in no state that makes later calls fail: a later call in
\* which the repository is reachable and git works returns a revision.
C37_LaterCallSucceedsAfterFailedClone ==
    (GitReturned /\ git.clone_failed /\ GitWorked) => git.ret.status = "Ok"

(* Further properties of the skills commands *)

\* C38: skills_sync_to_tool writes a SkillTarget record only after the
\* filesystem sync has succeeded, and a call that returns an error has
\* created or changed no SkillTarget record.
C38_NoRecordFromFailedSync ==
    [][\A k \in Tasks :
        (call'[k] # call[k] /\ call'[k].cmd = "sync") =>
            /\ (call'[k].pc = "idle" /\ call'[k].ret.status = "Err") =>
                    db_skill_target' = db_skill_target
            /\ db_skill_target' # db_skill_target =>
                    /\ call[k].pc = "upsert"
                    /\ call'[k].ret.status = "Ok"]_vars

\* a sync has failed on a conflict while records of earlier syncs exist
C38_Witness ==
    \E k \in Tasks :
        /\ call[k].cmd = "sync"
        /\ call[k].pc = "idle"
        /\ call[k].ret.status = "Err"
        /\ call[k].ret.prefix = "TARGET_EXISTS|"
        /\ db_skill_target # {}

====
